---- MODULE Spec2Model ----
(***************************************************************************)
(* PyFlashLogger: the custom-level registry (flashlogger/log_levels.py),   *)
(* the channel filter (flashlogger/log_channel_abc.py), the console and    *)
(* file channels' do_log, and the FlashLogger dispatcher                    *)
(* (flashlogger/flash_logger.py).                                           *)
(*                                                                         *)
(* LogLevel members are modelled by their names.  Python sequences are     *)
(* 0-based; custom slot i of the source is index i + 1 here.               *)
(***************************************************************************)
EXTENDS Integers, Sequences, FiniteSets, TLC

VARIABLES
    custom_levels,       \* LogLevel.custom_levels: the numeric value of each custom slot
    loggable,            \* channel -> LogChannelABC.__loggable_levels
    backend,             \* channel -> records handed to self._logger.log / logging.log
    invoked,             \* channel -> the do_log calls the channel received
    log_channels,        \* FlashLogger.log_channels
    channel_id_counter,  \* FlashLogger._channel_id_counter
    channel_ids,         \* FlashLogger._channel_ids
    channel_selectors,   \* FlashLogger._channel_selectors
    stderr,              \* the channels whose failure the log call made last printed
    last,                \* the call made last and how it ended (return value or exception)
    global_logger,       \* flash_logger._global_logger
    threads,             \* thread -> where the thread stands in its call, and its locals
    output_format,       \* channel -> LogChannelABC.output_format
    handlers,            \* the handlers of the shared logger and of the root logger
    written,             \* sink -> the records its handler wrote, as rendered
    custom_str_map       \* LogLevel.custom_str_map

vars == <<custom_levels, loggable, backend, invoked, log_channels,
          channel_id_counter, channel_ids, channel_selectors, stderr, last,
          global_logger, threads, output_format, handlers, written, custom_str_map>>

Range(f) == {f[x] : x \in DOMAIN f}

Min(S) == CHOOSE x \in S : \A y \in S : x <= y

(***************************************************************************)
(* The level registry: flashlogger/log_levels.py                           *)
(***************************************************************************)

\* The constants of Python's logging module that log_levels.py uses.
logging_NOTSET == 0
logging_DEBUG == 10
logging_INFO == 20
logging_WARNING == 30
logging_ERROR == 40
logging_CRITICAL == 50
logging_FATAL == 50

NumCustomSlots == 10

StandardLevels ==
    {"NOTSET", "DEBUG", "INFO", "WARNING", "ERROR", "FATAL", "CRITICAL",
     "COMMAND", "COMMAND_OUTPUT", "COMMAND_STDERR"}

\* CUSTOM0 .. CUSTOM9, in the order logging_level and custom_level go through them.
CustomFlags ==
    <<"CUSTOM0", "CUSTOM1", "CUSTOM2", "CUSTOM3", "CUSTOM4",
      "CUSTOM5", "CUSTOM6", "CUSTOM7", "CUSTOM8", "CUSTOM9">>

\* set(LogLevel): every member of the enum.
LogLevel == StandardLevels \cup Range(CustomFlags)

command_level == logging_INFO + 2
command_stdout_level == logging_INFO + 4
command_stderr_level == logging_INFO + 6

\* A registry in which FATAL has the value of logging.FATAL, which is CRITICAL's.
standard_mapping_fatal_is_critical ==
    (logging_NOTSET :> "NOTSET") @@ (logging_DEBUG :> "DEBUG") @@
    (logging_INFO :> "INFO") @@ (command_level :> "COMMAND") @@
    (command_stdout_level :> "COMMAND_OUTPUT") @@
    (command_stderr_level :> "COMMAND_STDERR") @@
    (logging_WARNING :> "WARNING") @@ (logging_ERROR :> "ERROR") @@
    (logging_FATAL :> "FATAL")

\* LogLevel.standard_mapping: numeric value -> standard level.
standard_mapping ==
    (logging_NOTSET :> "NOTSET") @@ (logging_DEBUG :> "DEBUG") @@
    (logging_INFO :> "INFO") @@ (command_level :> "COMMAND") @@
    (command_stdout_level :> "COMMAND_OUTPUT") @@
    (command_stderr_level :> "COMMAND_STDERR") @@
    (logging_WARNING :> "WARNING") @@ (logging_ERROR :> "ERROR") @@
    (logging_CRITICAL :> "CRITICAL") @@ (logging_FATAL + 1 :> "FATAL")

\* {v: k for k, v in LogLevel.standard_mapping.items()}: standard level -> numeric value.
standard_values ==
    [l \in Range(standard_mapping) |->
        CHOOSE k \in DOMAIN standard_mapping : standard_mapping[k] = l]

\* The position of each custom flag in the list logging_level enumerates.
custom_index == [l \in Range(CustomFlags) |-> CHOOSE i \in 1..Len(CustomFlags) : CustomFlags[i] = l]

\* LogLevel.logging_level(self), read against the slot values cl.
logging_level(self, cl) ==
    IF self \in DOMAIN standard_values THEN standard_values[self]
    ELSE IF self = "COMMAND" THEN command_level
    ELSE IF self = "COMMAND_OUTPUT" THEN command_stdout_level
    ELSE IF self = "COMMAND_STDERR" THEN command_stderr_level
    ELSE IF self \in DOMAIN custom_index THEN cl[custom_index[self]]
    ELSE logging_NOTSET

\* The slots custom_level's loops find: those holding level, and the free ones.
SlotsHolding(level, cl) == {i \in 1..Len(cl) : cl[i] = level}
FreeSlots(cl) == {i \in 1..Len(cl) : cl[i] = logging_NOTSET}

\* What a call returns: it raises, or yields value; custom_levels is the list afterwards.
Returned(value, cl) == [raised |-> FALSE, value |-> value, custom_levels |-> cl]
Raised(error, cl) == [raised |-> TRUE, value |-> error, custom_levels |-> cl]

\* custom_level without step 2: a value is never looked up among the bound slots.
custom_level_no_lookup(level, cl) ==
    IF level < 0 THEN Returned("NOTSET", cl)
    ELSE IF level \in DOMAIN standard_mapping THEN Returned(standard_mapping[level], cl)
    ELSE IF FreeSlots(cl) # {}
    THEN LET i == Min(FreeSlots(cl))
         IN  Returned(CustomFlags[i], [cl EXCEPT ![i] = level])
    ELSE Raised("ValueError", cl)

\* custom_level that reuses the last slot when none is free instead of raising.
custom_level_reuse_last(level, cl) ==
    IF level < 0 THEN Returned("NOTSET", cl)
    ELSE IF level \in DOMAIN standard_mapping THEN Returned(standard_mapping[level], cl)
    ELSE IF SlotsHolding(level, cl) # {}
    THEN Returned(CustomFlags[Min(SlotsHolding(level, cl))], cl)
    ELSE IF FreeSlots(cl) # {}
    THEN LET i == Min(FreeSlots(cl))
         IN  Returned(CustomFlags[i], [cl EXCEPT ![i] = level])
    ELSE Returned(CustomFlags[Len(cl)], [cl EXCEPT ![Len(cl)] = level])

\* custom_level without step 1: a standard value is bound to a custom slot.
custom_level_no_standard(level, cl) ==
    IF level < 0 THEN Returned("NOTSET", cl)
    ELSE IF SlotsHolding(level, cl) # {}
    THEN Returned(CustomFlags[Min(SlotsHolding(level, cl))], cl)
    ELSE IF FreeSlots(cl) # {}
    THEN LET i == Min(FreeSlots(cl))
         IN  Returned(CustomFlags[i], [cl EXCEPT ![i] = level])
    ELSE Raised("ValueError", cl)

\* custom_level without the test for a negative value: it is bound like any other.
custom_level_no_negative(level, cl) ==
    IF level \in DOMAIN standard_mapping THEN Returned(standard_mapping[level], cl)
    ELSE IF SlotsHolding(level, cl) # {}
    THEN Returned(CustomFlags[Min(SlotsHolding(level, cl))], cl)
    ELSE IF FreeSlots(cl) # {}
    THEN LET i == Min(FreeSlots(cl))
         IN  Returned(CustomFlags[i], [cl EXCEPT ![i] = level])
    ELSE Raised("ValueError", cl)

\* LogLevel.custom_level(level) on the slot values cl.  level is a Python int (the
\* declared parameter type, and the only type the channels pass), so the int(level)
\* stored in the slot is level itself.
custom_level(level, cl) ==
    IF level < 0 THEN Returned("NOTSET", cl)
    ELSE IF level \in DOMAIN standard_mapping THEN Returned(standard_mapping[level], cl)
    ELSE IF SlotsHolding(level, cl) # {}
    THEN Returned(CustomFlags[Min(SlotsHolding(level, cl))], cl)
    ELSE IF FreeSlots(cl) # {}
    THEN LET i == Min(FreeSlots(cl))
         IN  Returned(CustomFlags[i], [cl EXCEPT ![i] = level])
    ELSE Raised("ValueError", cl)

(***************************************************************************)
(* Level references and calls                                              *)
(***************************************************************************)

\* A level as callers give it: a LogLevel member, a str or an int.
AsLevel(l) == [kind |-> "LogLevel", name |-> l, num |-> 0]
AsStr(s) == [kind |-> "str", name |-> s, num |-> 0]
AsInt(n) == [kind |-> "int", name |-> "", num |-> n]

NoChannel == "None"

\* An argument: one level reference, a collection of them (in iteration order), a
\* dict with the key "exclude" holding a collection, or None.
NoRef == [kind |-> "None", name |-> "", num |-> 0]
Single(ref) == [form |-> "single", ref |-> ref, items |-> <<>>]
Collection(items) == [form |-> "iterable", ref |-> NoRef, items |-> items]
ExcludeDict(items) == [form |-> "exclude", ref |-> NoRef, items |-> items]
None == [form |-> "None", ref |-> NoRef, items |-> <<>>]

\* The call made last: the operation, the channel and the argument it was given, and
\* how it ended.
Call(op, ch, param, raised, value) ==
    [op |-> op, ch |-> ch, param |-> param, raised |-> raised, value |-> value]

(***************************************************************************)
(* The registry on its own: calls of LogLevel.custom_level                 *)
(***************************************************************************)

\* The values the tests bind the slots to: slot i holds i + FillerBase.
FillerBase == 100

\* The registry after custom_level(FillerBase), .., custom_level(FillerBase + k - 1).
Prefilled(k) ==
    [i \in 1..NumCustomSlots |-> IF i <= k THEN FillerBase + (i - 1) ELSE logging_NOTSET]

\* The numbers custom_level is called with: negative, standard, and custom values.
LevelNumbers == {-5, 0, 20, 35, 60, 109, 999}

Channels == {"c1", "c2", "c3"}

\* The parts of the state a registry call leaves alone.
dispatcherVars ==
    <<log_channels, channel_id_counter, channel_ids, channel_selectors, stderr>>
channelVars == <<loggable, backend, invoked>>
threadVars == <<global_logger, threads>>
outputVars == <<output_format, handlers, written, custom_str_map>>

NoDispatcher ==
    /\ log_channels = <<>>
    /\ channel_id_counter = 0
    /\ channel_ids = <<>>
    /\ channel_selectors = <<>>
    /\ stderr = <<>>

\* _global_logger = None; a FlashLogger object is denoted by a positive number.
NoLogger == 0

\* No thread is inside a call, and get_logger was never called.
NoThreads ==
    /\ global_logger = NoLogger
    /\ threads = <<>>

\* No channel was constructed and nothing was logged: the logging module has no
\* handler, and no label is overridden.
NoOutput ==
    /\ output_format = <<>>
    /\ handlers = [shared |-> <<>>, root |-> <<>>]
    /\ written = <<>>
    /\ custom_str_map = <<>>

NoChannels ==
    /\ loggable = [c \in Channels |-> {}]
    /\ backend = [c \in Channels |-> <<>>]
    /\ invoked = [c \in Channels |-> <<>>]

InitLevels ==
    /\ \E k \in 0..NumCustomSlots : custom_levels = Prefilled(k)
    /\ NoChannels
    /\ NoDispatcher
    /\ last = Call("import", NoChannel, None, FALSE, "None")
    /\ NoThreads
    /\ NoOutput

\* LogLevel.custom_level(level), called directly.
CustomLevel(level) ==
    LET r == custom_level(level, custom_levels)
    IN  /\ custom_levels' = r.custom_levels
        /\ last' = Call("custom_level", NoChannel, Single(AsInt(level)), r.raised, r.value)
        /\ UNCHANGED <<channelVars, dispatcherVars, threadVars, outputVars>>

NextLevels == \E level \in LevelNumbers : CustomLevel(level)

SpecLevels == InitLevels /\ [][NextLevels]_vars

\* The values that are neither negative nor standard: the ones that need a custom slot.
IsCustomValue(v) == v >= 0 /\ v \notin DOMAIN standard_mapping

AllSlotsBound(cl) == FreeSlots(cl) = {}

\* C6: idempotent registration.  A custom value v is bound to the lowest free slot by
\* the first custom_level(v); in every later step that slot keeps the value v, no
\* other slot gets v, and a custom_level(v) that returns yields exactly that slot,
\* which reports v from logging_level().
C6_IdempotentRegistration ==
    [][\A v \in LevelNumbers : IsCustomValue(v) =>
          /\ SlotsHolding(v, custom_levels) # {} =>
                 SlotsHolding(v, custom_levels') = SlotsHolding(v, custom_levels)
          /\ Cardinality(SlotsHolding(v, custom_levels')) <= 1
          /\ (last'.op = "custom_level" /\ last'.param = Single(AsInt(v)) /\ ~last'.raised) =>
                 /\ SlotsHolding(v, custom_levels') # {}
                 /\ last'.value = CustomFlags[Min(SlotsHolding(v, custom_levels'))]
                 /\ logging_level(last'.value, custom_levels') = v
                 /\ SlotsHolding(v, custom_levels) = {} =>
                        /\ SlotsHolding(v, custom_levels') = {Min(FreeSlots(custom_levels))}
                        /\ \A i \in 1..NumCustomSlots :
                               i # Min(FreeSlots(custom_levels)) =>
                                   custom_levels'[i] = custom_levels[i]
      ]_vars

\* C6 witness: custom_level(35) has just returned the slot that an earlier call bound
\* to 35, after other values were bound in between.
C6_Witness ==
    /\ last.op = "custom_level" /\ last.param = Single(AsInt(35)) /\ ~last.raised
    /\ \E i \in 1..NumCustomSlots :
          /\ custom_levels[i] = 35
          /\ last.value = CustomFlags[i]
          /\ i < NumCustomSlots
          /\ custom_levels[i + 1] # logging_NOTSET

\* C7: exhaustion.  With all 10 slots bound, custom_level(v) raises exactly when v is a
\* custom value that no slot holds, and leaves the ten bindings as they were; a
\* negative, standard or bound value still resolves.
C7_Exhaustion ==
    [][(AllSlotsBound(custom_levels) /\ last'.op = "custom_level") =>
          LET v == last'.param.ref.num
          IN  /\ custom_levels' = custom_levels
              /\ last'.raised <=>
                     (IsCustomValue(v) /\ SlotsHolding(v, custom_levels) = {})
              /\ last'.raised => last'.value = "ValueError"
              /\ (~last'.raised /\ v < 0) => last'.value = "NOTSET"
              /\ (~last'.raised /\ v \in DOMAIN standard_mapping) =>
                     last'.value = standard_mapping[v]
              /\ (~last'.raised /\ IsCustomValue(v)) =>
                     \E i \in SlotsHolding(v, custom_levels) : last'.value = CustomFlags[i]
      ]_vars

\* C7 witness: all ten slots are bound and custom_level(999) has just raised.
C7_Witness ==
    /\ AllSlotsBound(custom_levels)
    /\ last = Call("custom_level", NoChannel, Single(AsInt(999)), TRUE, "ValueError")

\* The custom slots that are bound, as levels.
BoundCustom(cl) == {CustomFlags[i] : i \in {j \in 1..Len(cl) : cl[j] # logging_NOTSET}}

\* Numeric value <-> level is a bijection over the levels S: no two report the same
\* value, and each one's value resolves to it without touching the registry.
Bijective(S, cl) ==
    /\ \A a, b \in S : a # b => logging_level(a, cl) # logging_level(b, cl)
    /\ \A a \in S :
          custom_level(logging_level(a, cl), cl) = Returned(a, cl)

\* C8 as claimed: the bijection covers all 20 levels in every reachable state, the
\* initial one with no slot bound included.
C8_BijectionOverAll == Bijective(LogLevel, custom_levels)

\* C8 as amended: the bijection covers the standard levels and the bound custom slots;
\* every unbound slot reports logging.NOTSET, which resolves to NOTSET.
C8_BijectionOverBound ==
    /\ Bijective(StandardLevels \cup BoundCustom(custom_levels), custom_levels)
    /\ \A l \in LogLevel \ (StandardLevels \cup BoundCustom(custom_levels)) :
          /\ logging_level(l, custom_levels) = logging_NOTSET
          /\ custom_level(logging_NOTSET, custom_levels).value = "NOTSET"

\* C8 witness: custom_level has bound slots, some are bound and some are free.
C8_Witness ==
    /\ last.op = "custom_level" /\ ~last.raised
    /\ Cardinality(BoundCustom(custom_levels)) >= 3
    /\ Cardinality(FreeSlots(custom_levels)) >= 2
    /\ last.value \in BoundCustom(custom_levels)

(***************************************************************************)
(* The channel filter: flashlogger/log_channel_abc.py                      *)
(***************************************************************************)

\* str.upper() on the names used as level names and as format names here.
upper(s) ==
    CASE s = "info" -> "INFO"
      [] s = "error" -> "ERROR"
      [] s = "Warning" -> "WARNING"
      [] s = "custom1" -> "CUSTOM1"
      [] s = "bogus" -> "BOGUS"
      [] s = "json_lines" -> "JSON_LINES"
      [] s = "Json_Pretty" -> "JSON_PRETTY"
      [] OTHER -> s

\* LogLevel[name]: the member of that name, or KeyError.
LogLevelByName(name, cl) ==
    IF name \in LogLevel THEN Returned(name, cl) ELSE Raised("KeyError", cl)

\* The conversion every filter method applies to a level reference: a str goes through
\* LogLevel[level.upper()], an int through LogLevel.custom_level, anything else is
\* taken as it is.
to_level(ref, cl) ==
    IF ref.kind = "str" THEN LogLevelByName(upper(ref.name), cl)
    ELSE IF ref.kind = "int" THEN custom_level(ref.num, cl)
    ELSE Returned(ref.name, cl)

\* The loop `for level in ...: levels.add(<converted level>)`, started with the set
\* acc: it stops at the first conversion that raises; the slots bound until then stay
\* bound.
RECURSIVE add_levels(_, _, _)
add_levels(items, acc, cl) ==
    IF items = <<>> THEN Returned(acc, cl)
    ELSE LET r == to_level(Head(items), cl)
         IN  IF r.raised THEN r
             ELSE add_levels(Tail(items), acc \cup {r.value}, r.custom_levels)

\* The threshold branch with > in place of >=.
levels_from_strictly_above(threshold_level, cl) ==
    {level \in LogLevel : logging_level(level, cl) > logging_level(threshold_level, cl)}

\* The threshold branch evaluated by value on every query: the slots that are still
\* free count as being at or above the threshold.
levels_from_with_free_slots(threshold_level, cl) ==
    {level \in LogLevel :
        \/ logging_level(level, cl) >= logging_level(threshold_level, cl)
        \/ \E i \in FreeSlots(cl) : CustomFlags[i] = level}

\* {level for level in LogLevel if level.logging_level() >= threshold_level.logging_level()}
levels_from(threshold_level, cl) ==
    {level \in LogLevel : logging_level(level, cl) >= logging_level(threshold_level, cl)}

\* The threshold branch of the setter and of _configure_levels: a str, an int or a
\* LogLevel is the threshold, anything else falls back to NOTSET.
threshold_mode(param, cl) ==
    LET r == IF param.form = "single" /\ param.ref.kind \in {"str", "int", "LogLevel"}
             THEN to_level(param.ref, cl)
             ELSE Returned("NOTSET", cl)
    IN  IF r.raised THEN r
        ELSE Returned(levels_from(r.value, r.custom_levels), r.custom_levels)

\* An exclusion that is taken relative to the standard levels only.
exclusion_mode_standard_only(items, cl) ==
    LET r == add_levels(items, {}, cl)
    IN  IF r.raised THEN r ELSE Returned(StandardLevels \ r.value, r.custom_levels)

\* set(LogLevel) - excluded_levels, with excluded_levels collected from items.
exclusion_mode(items, cl) ==
    LET r == add_levels(items, {}, cl)
    IN  IF r.raised THEN r ELSE Returned(LogLevel \ r.value, r.custom_levels)

\* A setter that adds the new levels to the ones the channel c1 permits already.
set_log_levels_accumulating(param, cl) ==
    LET r == IF param.form = "exclude" THEN exclusion_mode(param.items, cl)
             ELSE IF param.form = "iterable"
             THEN LET a == add_levels(param.items, {}, cl)
                  IN  IF ~a.raised THEN a
                      ELSE IF a.value \in {"TypeError", "ValueError"}
                      THEN threshold_mode(param, a.custom_levels)
                      ELSE a
             ELSE threshold_mode(param, cl)
    IN  IF r.raised THEN r ELSE [r EXCEPT !.value = @ \cup loggable["c1"]]

\* The setter of LogChannelABC.log_levels.  value is the new __loggable_levels when the
\* call returns.  In inclusion mode a ValueError of the loop (custom_level found no
\* free slot) is caught and the call falls through to threshold mode, where the
\* collection is no str, int or LogLevel; a KeyError is not caught.
set_log_levels(param, cl) ==
    IF param.form = "exclude" THEN exclusion_mode(param.items, cl)
    ELSE IF param.form = "iterable"
    THEN LET r == add_levels(param.items, {}, cl)
         IN  IF ~r.raised THEN r
             ELSE IF r.value \in {"TypeError", "ValueError"}
             THEN threshold_mode(param, r.custom_levels)
             ELSE r
    ELSE threshold_mode(param, cl)

\* _configure_levels in which no policy at all permits nothing.
configure_levels_default_empty(minimum_log_level, include_log_levels, exclude_log_levels, cl) ==
    IF exclude_log_levels.form # "None"
    THEN IF exclude_log_levels.form = "single"
         THEN exclusion_mode(<<exclude_log_levels.ref>>, cl)
         ELSE exclusion_mode(exclude_log_levels.items, cl)
    ELSE IF include_log_levels.form # "None"
    THEN IF include_log_levels.form = "single"
         THEN add_levels(<<include_log_levels.ref>>, {}, cl)
         ELSE add_levels(include_log_levels.items, {}, cl)
    ELSE IF minimum_log_level.form # "None"
    THEN IF minimum_log_level.form = "exclude"
         THEN exclusion_mode(minimum_log_level.items, cl)
         ELSE threshold_mode(minimum_log_level, cl)
    ELSE Returned({}, cl)

\* LogChannelABC._configure_levels, called by __init__: exclude_log_levels before
\* include_log_levels before minimum_log_level, each given as one reference or as a
\* collection (minimum_log_level also as a dict with "exclude"); with all three None
\* the channel logs everything.  An exception leaves the constructor.
configure_levels(minimum_log_level, include_log_levels, exclude_log_levels, cl) ==
    IF exclude_log_levels.form # "None"
    THEN IF exclude_log_levels.form = "single"
         THEN exclusion_mode(<<exclude_log_levels.ref>>, cl)
         ELSE exclusion_mode(exclude_log_levels.items, cl)
    ELSE IF include_log_levels.form # "None"
    THEN IF include_log_levels.form = "single"
         THEN add_levels(<<include_log_levels.ref>>, {}, cl)
         ELSE add_levels(include_log_levels.items, {}, cl)
    ELSE IF minimum_log_level.form # "None"
    THEN IF minimum_log_level.form = "exclude"
         THEN exclusion_mode(minimum_log_level.items, cl)
         ELSE threshold_mode(minimum_log_level, cl)
    ELSE Returned(LogLevel, cl)

Bool(b) == IF b THEN "True" ELSE "False"

\* is_loggable that ignores the filter.
is_loggable_always(log_level, levels, cl) ==
    LET r == to_level(log_level, cl)
    IN  IF r.raised THEN r ELSE Returned("True", r.custom_levels)

\* LogChannelABC.is_loggable(log_level) of a channel whose __loggable_levels is levels.
is_loggable(log_level, levels, cl) ==
    LET r == to_level(log_level, cl)
    IN  IF r.raised THEN r ELSE Returned(Bool(r.value \in levels), r.custom_levels)

(***************************************************************************)
(* One channel and its filter: constructor, log_levels setter, is_loggable *)
(***************************************************************************)

FilterChannels == {"c1"}

\* Single references given as threshold: levels, names (any case, one unknown) and
\* numbers (standard, custom, negative).
SingleRefs ==
    {AsLevel("WARNING"), AsLevel("CUSTOM0"), AsStr("error"), AsStr("bogus"),
     AsInt(30), AsInt(35), AsInt(-5), AsInt(999)}

\* Collections given for inclusion or exclusion, in iteration order.
Collections ==
    {<<>>,
     <<AsLevel("INFO"), AsLevel("ERROR")>>,
     <<AsLevel("DEBUG"), AsLevel("INFO")>>,
     <<AsStr("info"), AsInt(40), AsInt(35)>>,
     <<AsInt(999), AsLevel("DEBUG")>>,
     <<AsLevel("DEBUG"), AsStr("bogus")>>}

SetterParams ==
    {Single(r) : r \in SingleRefs} \cup {Collection(i) : i \in Collections}
        \cup {ExcludeDict(i) : i \in Collections} \cup {None}

\* Constructor arguments <<minimum_log_level, include_log_levels, exclude_log_levels>>:
\* none, each one alone, and two and three together.
ConstructorArgs ==
    {<<None, None, None>>,
     <<Single(AsLevel("WARNING")), None, None>>,
     <<Single(AsStr("error")), None, None>>,
     <<Single(AsInt(35)), None, None>>,
     <<ExcludeDict(<<AsLevel("DEBUG"), AsLevel("INFO")>>), None, None>>,
     <<None, Single(AsStr("info")), None>>,
     <<None, Collection(<<>>), None>>,
     <<None, Collection(<<AsLevel("INFO"), AsLevel("ERROR")>>), None>>,
     <<None, Collection(<<AsInt(999), AsLevel("DEBUG")>>), None>>,
     <<None, None, Single(AsInt(35))>>,
     <<None, None, Collection(<<AsLevel("DEBUG"), AsLevel("INFO")>>)>>,
     <<None, None, Collection(<<AsStr("info"), AsInt(40), AsInt(35)>>)>>,
     <<Single(AsLevel("WARNING")), Collection(<<AsLevel("INFO"), AsLevel("ERROR")>>), None>>,
     <<Single(AsLevel("WARNING")), Collection(<<AsLevel("INFO"), AsLevel("ERROR")>>),
       Collection(<<AsLevel("DEBUG"), AsLevel("INFO")>>)>>}

QueryRefs ==
    {AsLevel("DEBUG"), AsLevel("WARNING"), AsLevel("CUSTOM0"), AsStr("Warning"),
     AsStr("bogus"), AsInt(40), AsInt(35), AsInt(999)}

\* LogChannelABC.__init__ with no argument, for every channel: the default policy.
DefaultChannels ==
    /\ loggable = [c \in Channels |-> configure_levels(None, None, None, custom_levels).value]
    /\ backend = [c \in Channels |-> <<>>]
    /\ invoked = [c \in Channels |-> <<>>]

InitFilter ==
    /\ \E k \in 0..NumCustomSlots : custom_levels = Prefilled(k)
    /\ DefaultChannels
    /\ NoDispatcher
    /\ last = Call("import", NoChannel, None, FALSE, "None")
    /\ NoThreads
    /\ NoOutput

\* channel.log_levels = param
SetLogLevels(c, param) ==
    LET r == set_log_levels(param, custom_levels)
    IN  /\ custom_levels' = r.custom_levels
        /\ loggable' = IF r.raised THEN loggable ELSE [loggable EXCEPT ![c] = r.value]
        /\ last' = Call("log_levels", c, param, r.raised,
                        IF r.raised THEN r.value ELSE "None")
        /\ UNCHANGED <<backend, invoked, dispatcherVars, threadVars, outputVars>>

\* c = <a channel class>(minimum_log_level, include_log_levels, exclude_log_levels):
\* when the constructor raises, no new channel replaces c.  The call is recorded with
\* the argument that is in force.
Construct(c, minimum_log_level, include_log_levels, exclude_log_levels) ==
    LET r == configure_levels(minimum_log_level, include_log_levels,
                              exclude_log_levels, custom_levels)
        op == IF exclude_log_levels.form # "None" THEN "__init__(exclude_log_levels)"
              ELSE IF include_log_levels.form # "None" THEN "__init__(include_log_levels)"
              ELSE IF minimum_log_level.form # "None" THEN "__init__(minimum_log_level)"
              ELSE "__init__()"
        param == IF exclude_log_levels.form # "None" THEN exclude_log_levels
                 ELSE IF include_log_levels.form # "None" THEN include_log_levels
                 ELSE minimum_log_level
    IN  /\ custom_levels' = r.custom_levels
        /\ loggable' = IF r.raised THEN loggable ELSE [loggable EXCEPT ![c] = r.value]
        /\ last' = Call(op, c, param, r.raised, IF r.raised THEN r.value ELSE "None")
        /\ UNCHANGED <<backend, invoked, dispatcherVars, threadVars, outputVars>>

\* c.is_loggable(log_level)
IsLoggable(c, log_level) ==
    LET r == is_loggable(log_level, loggable[c], custom_levels)
    IN  /\ custom_levels' = r.custom_levels
        /\ last' = Call("is_loggable", c, Single(log_level), r.raised, r.value)
        /\ UNCHANGED <<channelVars, dispatcherVars, threadVars, outputVars>>

NextFilter ==
    \/ \E c \in FilterChannels, param \in SetterParams : SetLogLevels(c, param)
    \/ \E c \in FilterChannels, args \in ConstructorArgs :
          Construct(c, args[1], args[2], args[3])
    \/ \E c \in FilterChannels, ref \in QueryRefs : IsLoggable(c, ref)

SpecFilter == InitFilter /\ [][NextFilter]_vars

\* The references of an argument, in iteration order.
Members(param) == IF param.form = "single" THEN <<param.ref>> ELSE param.items

\* The level a reference denotes in the registry cl; none when it cannot be resolved
\* there (an unknown name, a number that is not bound).
Denotes(ref, cl) ==
    LET r == to_level(ref, cl)
    IN  IF r.raised \/ r.custom_levels # cl THEN {} ELSE {r.value}

DenotedBy(param, cl) == UNION {Denotes(m, cl) : m \in Range(Members(param))}

\* The answer of c.is_loggable(S) for the level S in the current state.
Permits(c, S) == is_loggable(AsLevel(S), loggable[c], custom_levels).value = "True"

\* The call made last configured its channel: in threshold mode with one level, ...
ThresholdConfigured ==
    /\ ~last.raised
    /\ last.op \in {"log_levels", "__init__(minimum_log_level)"}
    /\ last.param.form = "single"

\* ... in inclusion mode with a collection, ...
InclusionConfigured ==
    /\ ~last.raised
    /\ \/ last.op = "log_levels" /\ last.param.form = "iterable"
       \/ last.op = "__init__(include_log_levels)"

\* ... or in exclusion mode.
ExclusionConfigured ==
    /\ ~last.raised
    /\ \/ last.op \in {"log_levels", "__init__(minimum_log_level)"}
             /\ last.param.form = "exclude"
       \/ last.op = "__init__(exclude_log_levels)"

\* C3: threshold filter.  Right after a channel was configured with the single level
\* T, is_loggable(S) holds exactly for the levels S whose numeric value is >= T's; the
\* standard values are strictly ordered NOTSET < DEBUG < INFO < COMMAND <
\* COMMAND_OUTPUT < COMMAND_STDERR < WARNING < ERROR < CRITICAL < FATAL, so that
\* T = WARNING permits WARNING, ERROR, CRITICAL, FATAL and none of the other six.
C3_ThresholdFilter ==
    /\ LET order == <<"NOTSET", "DEBUG", "INFO", "COMMAND", "COMMAND_OUTPUT",
                      "COMMAND_STDERR", "WARNING", "ERROR", "CRITICAL", "FATAL">>
       IN  \A i \in 1..(Len(order) - 1) :
              logging_level(order[i], custom_levels)
                  < logging_level(order[i + 1], custom_levels)
    /\ ThresholdConfigured =>
          \E T \in Denotes(last.param.ref, custom_levels) :
             /\ \A S \in LogLevel :
                   Permits(last.ch, S) <=>
                       logging_level(S, custom_levels) >= logging_level(T, custom_levels)
             /\ T = "WARNING" =>
                   {S \in StandardLevels : Permits(last.ch, S)}
                       = {"WARNING", "ERROR", "CRITICAL", "FATAL"}

\* C3 witness: the threshold WARNING was given by its number while a custom slot holds
\* 35, which is permitted with the four standard levels from WARNING up.
C3_Witness ==
    /\ ThresholdConfigured
    /\ last.param.ref = AsInt(30)
    /\ \E i \in 1..NumCustomSlots :
          custom_levels[i] = 35 /\ Permits(last.ch, CustomFlags[i])
    /\ ~Permits(last.ch, "COMMAND_STDERR")

\* C4: inclusion filter.  Right after a channel was configured with the collection I,
\* is_loggable(S) holds exactly for the levels S that a member of I denotes; with an
\* empty I it holds for none.
C4_InclusionFilter ==
    InclusionConfigured =>
        \A S \in LogLevel :
            Permits(last.ch, S) <=> S \in DenotedBy(last.param, custom_levels)

\* C5: exclusion filter and default.  Right after a channel was configured to exclude
\* the collection E, is_loggable(S) holds exactly for the levels S of the 20 (10
\* standard, 10 custom slots) that no member of E denotes; right after a channel was
\* created with no policy, it holds for all 20.
C5_ExclusionAndDefault ==
    /\ Cardinality(LogLevel) = 2 * NumCustomSlots
    /\ ExclusionConfigured =>
          \A S \in LogLevel :
              Permits(last.ch, S) <=> S \notin DenotedBy(last.param, custom_levels)
    /\ (last.op = "__init__()" /\ ~last.raised) =>
          \A S \in LogLevel : Permits(last.ch, S)

\* C5 witness: a channel has just been set to exclude "info", 40 and 35; the slot
\* bound to 35 is rejected and WARNING is permitted.
C5_Witness ==
    /\ ExclusionConfigured
    /\ last.param.items = <<AsStr("info"), AsInt(40), AsInt(35)>>
    /\ \E i \in 1..NumCustomSlots :
          custom_levels[i] = 35 /\ ~Permits(last.ch, CustomFlags[i])
    /\ ~Permits(last.ch, "INFO") /\ ~Permits(last.ch, "ERROR")
    /\ Permits(last.ch, "WARNING")

(***************************************************************************)
(* The channels' do_log: log_channel_console.py, log_channel_file.py       *)
(***************************************************************************)

\* The class of each channel object: a console channel, a file channel, and the
\* channel of test_channel_exception_handling, whose do_log always raises; c4, c5
\* and c6 are the further file channels that get_logger can create.
channel_class ==
    ("c1" :> "LogChannelConsole") @@ ("c2" :> "FileLogChannel") @@ ("c3" :> "FailingChannel")
        @@ ("c4" :> "FileLogChannel") @@ ("c5" :> "FileLogChannel")
        @@ ("c6" :> "FileLogChannel") @@ ("c7" :> "LogChannelConsole")

\* FileLogChannel.log_file of the file channel objects.
log_file_of ==
    ("c2" :> "app.log") @@ ("c4" :> "other.log") @@ ("c5" :> "app.log")
        @@ ("c6" :> "other.log")

\* What do_log ends with: handed holds the call it made to its logging backend, if any.
Done(raised, value, cl, handed) ==
    [raised |-> raised, value |-> value, custom_levels |-> cl, handed |-> handed]

\* The level of the root logger, set by logging.basicConfig in FileLogChannel.__init__.
root_logger_level == logging_DEBUG

\* A do_log without the is_loggable test in front.
do_log_without_filter(class, log_level, message, with_file_line, levels, cl) ==
    LET r == to_level(log_level, cl)
    IN  IF r.raised THEN Done(TRUE, r.value, r.custom_levels, <<>>)
        ELSE LET levelno == logging_level(r.value, r.custom_levels)
                 record == [levelno |-> levelno, message |-> message]
             IN  IF class = "FileLogChannel" /\ with_file_line
                     /\ levelno >= root_logger_level
                 THEN Done(TRUE, "TypeError", r.custom_levels, <<record>>)
                 ELSE Done(FALSE, "None", r.custom_levels, <<record>>)

\* LogChannelConsole.do_log and FileLogChannel.do_log: return when the level is not
\* loggable, convert the level, and call the backend with its numeric value and the
\* message: self._logger.log(..., extra=extra) for the console, and
\* logging.log(..., **kwargs) for the file.  In the latter the keywords 'file' and
\* 'line', which FlashLogger.log always passes, reach Logger._log when the root logger
\* is enabled for the level, and it raises TypeError for a keyword it does not know.
filtered_do_log(class, log_level, message, with_file_line, levels, cl) ==
    LET q == is_loggable(log_level, levels, cl)
    IN  IF q.raised THEN Done(TRUE, q.value, q.custom_levels, <<>>)
        ELSE IF q.value # "True" THEN Done(FALSE, "None", q.custom_levels, <<>>)
        ELSE LET r == to_level(log_level, q.custom_levels)
                 levelno == logging_level(r.value, r.custom_levels)
                 record == [levelno |-> levelno, message |-> message]
             IN  IF class = "FileLogChannel" /\ with_file_line
                     /\ levelno >= root_logger_level
                 THEN Done(TRUE, "TypeError", r.custom_levels, <<record>>)
                 ELSE Done(FALSE, "None", r.custom_levels, <<record>>)

\* channel.do_log(log_level, message, file=.., line=..) by the class of the channel.
do_log(class, log_level, message, with_file_line, levels, cl) ==
    IF class = "FailingChannel" THEN Done(TRUE, "Exception", cl, <<>>)
    ELSE filtered_do_log(class, log_level, message, with_file_line, levels, cl)

(***************************************************************************)
(* The dispatcher: flashlogger/flash_logger.py                             *)
(***************************************************************************)

\* The loop of FlashLogger.log over the channels chs, on the state st = the slot
\* values, the backends, the calls received and the lines printed to sys.stderr: each
\* channel's do_log is called in turn, and an Exception it raises is printed.
RECURSIVE dispatch(_, _, _, _)

\* The loop without try/except: the first exception leaves it.
dispatch_until_failure(chs, log_level, message, st) ==
    IF chs = <<>> THEN st
    ELSE LET c == Head(chs)
             r == do_log(channel_class[c], log_level, message, TRUE,
                         loggable[c], st.custom_levels)
             next == [custom_levels |-> r.custom_levels,
                      backend |-> [st.backend EXCEPT ![c] = @ \o r.handed],
                      invoked |-> [st.invoked EXCEPT
                                      ![c] = Append(@, <<log_level, message>>)],
                      stderr |-> st.stderr,
                      raised |-> r.raised]
         IN  IF r.raised THEN next
             ELSE dispatch(Tail(chs), log_level, message, next)

dispatch(chs, log_level, message, st) ==
    IF chs = <<>> THEN st
    ELSE LET c == Head(chs)
             r == do_log(channel_class[c], log_level, message, TRUE,
                         loggable[c], st.custom_levels)
             next == [custom_levels |-> r.custom_levels,
                      backend |-> [st.backend EXCEPT ![c] = @ \o r.handed],
                      invoked |-> [st.invoked EXCEPT
                                      ![c] = Append(@, <<log_level, message>>)],
                      stderr |-> IF r.raised THEN Append(st.stderr, c) ELSE st.stderr,
                      raised |-> FALSE]
         IN  dispatch(Tail(chs), log_level, message, next)

\* A selector, an identifier or an instance as add_channel, remove_channel and
\* get_channel take them.
NoSelector == "None"
ById(i) == [kind |-> "int", name |-> "", num |-> i]
ByName(n) == [kind |-> "str", name |-> n, num |-> 0]
ByInstance(c) == [kind |-> "channel", name |-> c, num |-> 0]

\* The dispatcher's fields as one value.
Dispatcher(chs, counter, ids, selectors) ==
    [log_channels |-> chs, channel_id_counter |-> counter,
     channel_ids |-> ids, channel_selectors |-> selectors]

\* dict[key] = value on a dict kept as the sequence of its items in insertion order:
\* an existing key keeps its place.
dict_set(items, key, value) ==
    IF \E i \in 1..Len(items) : items[i].key = key
    THEN [i \in 1..Len(items) |->
             IF items[i].key = key THEN [key |-> key, value |-> value] ELSE items[i]]
    ELSE Append(items, [key |-> key, value |-> value])

\* The key under which the value x is in the dict (the first one).
dict_get_key(items, x) ==
    items[Min({i \in 1..Len(items) : items[i].value = x})].key

dict_has(items, key) == \E i \in 1..Len(items) : items[i].key = key
dict_get(items, key) == items[CHOOSE i \in 1..Len(items) : items[i].key = key].value

\* The loop `for k, v in list(d.items()): if v is x: del d[k]; break`: the first item
\* whose value is x is deleted.
dict_del_first_value(items, x) ==
    IF \E i \in 1..Len(items) : items[i].value = x
    THEN LET i == Min({j \in 1..Len(items) : items[j].value = x})
         IN  SubSeq(items, 1, i - 1) \o SubSeq(items, i + 1, Len(items))
    ELSE items

\* list.remove(x): the first occurrence of x is removed.
list_remove(list, x) ==
    LET i == Min({j \in 1..Len(list) : list[j] = x})
    IN  SubSeq(list, 1, i - 1) \o SubSeq(list, i + 1, Len(list))

\* add_channel that hands out len(self.log_channels) as the identifier.
add_channel_id_from_length(d, log_channel, selector) ==
    IF log_channel \in Range(d.log_channels)
    THEN IF selector # NoSelector
         THEN [d EXCEPT !.channel_selectors = dict_set(@, selector, log_channel)]
         ELSE d
    ELSE LET channel_id == Len(d.log_channels)
             added == Dispatcher(Append(d.log_channels, log_channel),
                                 channel_id + 1,
                                 dict_set(d.channel_ids, channel_id, log_channel),
                                 d.channel_selectors)
         IN  IF selector # NoSelector
             THEN [added EXCEPT !.channel_selectors = dict_set(@, selector, log_channel)]
             ELSE added

\* add_channel that keeps the earlier binding of a name on re-registration.
add_channel_first_name_wins(d, log_channel, selector) ==
    IF log_channel \in Range(d.log_channels)
    THEN IF selector # NoSelector /\ ~dict_has(d.channel_selectors, selector)
         THEN [d EXCEPT !.channel_selectors = dict_set(@, selector, log_channel)]
         ELSE d
    ELSE LET channel_id == d.channel_id_counter
             added == Dispatcher(Append(d.log_channels, log_channel),
                                 d.channel_id_counter + 1,
                                 dict_set(d.channel_ids, channel_id, log_channel),
                                 d.channel_selectors)
         IN  IF selector # NoSelector
             THEN [added EXCEPT !.channel_selectors = dict_set(@, selector, log_channel)]
             ELSE added

\* FlashLogger.add_channel(log_channel, selector)
add_channel(d, log_channel, selector) ==
    IF log_channel \in Range(d.log_channels)
    THEN IF selector # NoSelector
         THEN [d EXCEPT !.channel_selectors = dict_set(@, selector, log_channel)]
         ELSE d
    ELSE LET channel_id == d.channel_id_counter
             added == Dispatcher(Append(d.log_channels, log_channel),
                                 d.channel_id_counter + 1,
                                 dict_set(d.channel_ids, channel_id, log_channel),
                                 d.channel_selectors)
         IN  IF selector # NoSelector
             THEN [added EXCEPT !.channel_selectors = dict_set(@, selector, log_channel)]
             ELSE added

\* channel_to_remove that takes an integer as a position in log_channels.
channel_to_remove_by_position(d, channel) ==
    IF channel.kind = "int"
    THEN IF channel.num < Len(d.log_channels)
         THEN d.log_channels[channel.num + 1] ELSE NoChannel
    ELSE IF channel.kind = "str"
    THEN IF dict_has(d.channel_selectors, channel.name)
         THEN dict_get(d.channel_selectors, channel.name) ELSE NoChannel
    ELSE channel.name

\* The channel remove_channel looks for: by identifier, by selector, or the instance.
channel_to_remove(d, channel) ==
    IF channel.kind = "int"
    THEN IF dict_has(d.channel_ids, channel.num)
         THEN dict_get(d.channel_ids, channel.num) ELSE NoChannel
    ELSE IF channel.kind = "str"
    THEN IF dict_has(d.channel_selectors, channel.name)
         THEN dict_get(d.channel_selectors, channel.name) ELSE NoChannel
    ELSE channel.name

\* remove_channel that leaves the identifier map alone.
remove_channel_keeps_id(d, channel) ==
    LET c == channel_to_remove(d, channel)
    IN  IF c # NoChannel /\ c \in Range(d.log_channels)
        THEN Dispatcher(list_remove(d.log_channels, c),
                        d.channel_id_counter,
                        d.channel_ids,
                        dict_del_first_value(d.channel_selectors, c))
        ELSE d

\* FlashLogger.remove_channel(channel)
remove_channel(d, channel) ==
    LET c == channel_to_remove(d, channel)
    IN  IF c # NoChannel /\ c \in Range(d.log_channels)
        THEN Dispatcher(list_remove(d.log_channels, c),
                        d.channel_id_counter,
                        dict_del_first_value(d.channel_ids, c),
                        dict_del_first_value(d.channel_selectors, c))
        ELSE d

\* type(channel).__name__.lower()
class_name_lower(class) ==
    CASE class = "LogChannelConsole" -> "logchannelconsole"
      [] class = "FileLogChannel" -> "filelogchannel"
      [] class = "FailingChannel" -> "failingchannel"

\* selector.lower() on the names used as selectors here.
lower(s) ==
    CASE s = "Console" -> "console"
      [] s = "TheFileLogChannel" -> "thefilelogchannel"
      [] OTHER -> s

\* `a in b` on the lower-cased selectors and class names used here.
is_substring(a, b) ==
    \/ a = b
    \/ a = "console" /\ b = "logchannelconsole"
    \/ a = "file" /\ b = "filelogchannel"
    \/ a = "filelogchannel" /\ b = "thefilelogchannel"
    \/ a = "channel" /\ b \in {"logchannelconsole", "filelogchannel", "failingchannel"}

\* The class-name match of get_channel for one channel.
class_name_matches(selector_lower, channel_class_name) ==
    \/ is_substring(selector_lower, channel_class_name)
    \/ is_substring(channel_class_name, selector_lower)
    \/ selector_lower = "console" /\ is_substring("console", channel_class_name)
    \/ selector_lower = "file" /\ is_substring("file", channel_class_name)

\* What get_channel ends with.
Found(c) == [raised |-> FALSE, value |-> c]
NotFound == [raised |-> TRUE, value |-> "ValueError"]

\* get_channel that returns the last channel whose class name matches.
get_channel_last_match(d, selector) ==
    IF selector.kind = "int"
    THEN IF dict_has(d.channel_ids, selector.num)
         THEN Found(dict_get(d.channel_ids, selector.num)) ELSE NotFound
    ELSE IF selector.kind = "str"
    THEN IF dict_has(d.channel_selectors, selector.name)
         THEN Found(dict_get(d.channel_selectors, selector.name))
         ELSE LET matching ==
                      {i \in 1..Len(d.log_channels) :
                          class_name_matches(lower(selector.name),
                              class_name_lower(channel_class[d.log_channels[i]]))}
              IN  IF matching # {}
                  THEN Found(d.log_channels[CHOOSE i \in matching :
                                               \A j \in matching : j <= i])
                  ELSE NotFound
    ELSE IF selector.name \in Range(d.log_channels) THEN Found(selector.name)
    ELSE NotFound

\* FlashLogger.get_channel(selector)
get_channel(d, selector) ==
    IF selector.kind = "int"
    THEN IF dict_has(d.channel_ids, selector.num)
         THEN Found(dict_get(d.channel_ids, selector.num)) ELSE NotFound
    ELSE IF selector.kind = "str"
    THEN IF dict_has(d.channel_selectors, selector.name)
         THEN Found(dict_get(d.channel_selectors, selector.name))
         ELSE LET matching ==
                      {i \in 1..Len(d.log_channels) :
                          class_name_matches(lower(selector.name),
                              class_name_lower(channel_class[d.log_channels[i]]))}
              IN  IF matching # {} THEN Found(d.log_channels[Min(matching)])
                  ELSE NotFound
    ELSE IF selector.name \in Range(d.log_channels) THEN Found(selector.name)
    ELSE NotFound

\* for log_channel in channels_to_add: self.add_channel(log_channel)
RECURSIVE add_all(_, _)
add_all(d, channels_to_add) ==
    IF channels_to_add = <<>> THEN d
    ELSE add_all(add_channel(d, Head(channels_to_add), NoSelector), Tail(channels_to_add))

\* FlashLogger(log_channels): the dispatcher after __init__ was given the channels.
new_FlashLogger(channels_to_add) == add_all(Dispatcher(<<>>, 0, <<>>, <<>>), channels_to_add)

\* The dispatcher of the current state, and its fields set from a value.
TheDispatcher ==
    Dispatcher(log_channels, channel_id_counter, channel_ids, channel_selectors)

SetDispatcher(d) ==
    /\ log_channels' = d.log_channels
    /\ channel_id_counter' = d.channel_id_counter
    /\ channel_ids' = d.channel_ids
    /\ channel_selectors' = d.channel_selectors

\* Sequences of distinct channels, at least one: what a FlashLogger is created with.
ChannelLists ==
    {chs \in UNION {[1..n -> Channels] : n \in 1..Cardinality(Channels)} :
        \A i, j \in DOMAIN chs : i # j => chs[i] # chs[j]}

(***************************************************************************)
(* Logging through a dispatcher: FlashLogger.log                           *)
(***************************************************************************)

\* The number of log calls made on one dispatcher.
MaxLogCalls == 3

\* The registries a dispatcher is used with: no slot bound, and all ten bound.
LogPrefills == {0, NumCustomSlots}

\* log_info("skip"), log_error("keep"), and log with an unknown name and with a number.
LogCalls ==
    {<<AsLevel("INFO"), "skip">>, <<AsLevel("ERROR"), "keep">>,
     <<AsStr("bogus"), "skip">>, <<AsInt(35), "keep">>}

\* The policies set on the console channel while the dispatcher is in use.
LogSetterParams == {Single(AsLevel("ERROR")), Single(AsLevel("NOTSET"))}

\* A console channel with threshold ERROR, the file channel as FlashLogger creates it
\* (threshold WARNING), the failing channel with no policy, and a FlashLogger created
\* with some of them in some order.
InitLog ==
    /\ \E k \in LogPrefills : custom_levels = Prefilled(k)
    /\ loggable =
          [c \in Channels |->
              configure_levels(
                  IF channel_class[c] = "LogChannelConsole" THEN Single(AsLevel("ERROR"))
                  ELSE IF channel_class[c] = "FileLogChannel" THEN Single(AsLevel("WARNING"))
                  ELSE None,
                  None, None, custom_levels).value]
    /\ backend = [c \in Channels |-> <<>>]
    /\ invoked = [c \in Channels |-> <<>>]
    /\ \E chs \in ChannelLists :
          LET d == new_FlashLogger(chs)
          IN  /\ log_channels = d.log_channels
              /\ channel_id_counter = d.channel_id_counter
              /\ channel_ids = d.channel_ids
              /\ channel_selectors = d.channel_selectors
    /\ stderr = <<>>
    /\ last = Call("FlashLogger", NoChannel, None, FALSE, "None")
    /\ NoThreads
    /\ NoOutput

\* FlashLogger.log(level, message): 'file' and 'line' are set in kwargs, then every
\* channel's do_log is called inside try/except Exception.
Log(level, message) ==
    /\ Len(invoked[log_channels[1]]) < MaxLogCalls
    /\ LET st == dispatch(log_channels, level, message,
                          [custom_levels |-> custom_levels, backend |-> backend,
                           invoked |-> invoked, stderr |-> <<>>, raised |-> FALSE])
       IN  /\ custom_levels' = st.custom_levels
           /\ backend' = st.backend
           /\ invoked' = st.invoked
           /\ stderr' = st.stderr
           /\ last' = Call("log", NoChannel, Single(level), st.raised,
                           IF st.raised THEN "Exception" ELSE "None")
    /\ UNCHANGED <<loggable, log_channels, channel_id_counter, channel_ids,
                   channel_selectors, threadVars, outputVars>>

NextLog ==
    \/ \E call \in LogCalls : Log(call[1], call[2])
    \/ \E param \in LogSetterParams : SetLogLevels("c1", param)

SpecLog == InitLog /\ [][NextLog]_vars

\* C1: partial failure.  One FlashLogger.log call invokes do_log, with the level it
\* was given, once on every registered channel, whichever channels raise and wherever
\* they stand in the list, and it does not raise to the caller; the channels that
\* raised are the ones reported on sys.stderr.
C1_PartialFailure ==
    [][last'.op = "log" =>
          /\ ~last'.raised
          /\ \A c \in Channels :
                IF c \in Range(log_channels)
                THEN /\ Len(invoked'[c]) = Len(invoked[c]) + 1
                     /\ SubSeq(invoked'[c], 1, Len(invoked[c])) = invoked[c]
                     /\ invoked'[c][Len(invoked'[c])][1] = last'.param.ref
                ELSE invoked'[c] = invoked[c]
          /\ \A c \in Range(stderr') : c \in Range(log_channels)
          /\ \A c \in Range(log_channels) :
                channel_class[c] = "FailingChannel" => c \in Range(stderr')
      ]_vars

\* C1 witness: the failing channel is registered first, the log call has returned, and
\* the console channel after it received the call and handed the record on.
C1_Witness ==
    /\ last.op = "log" /\ ~last.raised
    /\ Len(log_channels) = 3
    /\ log_channels[1] = "c3"
    /\ stderr = <<"c3", "c2">>
    /\ \A c \in Channels : Len(invoked[c]) = 1
    /\ backend["c1"] = <<[levelno |-> logging_ERROR, message |-> "keep"]>>

\* The channel c is the only one of its dispatcher and has the threshold ERROR.
OnlyChannelWithThresholdError(c) ==
    /\ log_channels = <<c>>
    /\ channel_class[c] \in {"LogChannelConsole", "FileLogChannel"}
    /\ loggable[c] = levels_from("ERROR", custom_levels)

MaxChannelIds == 4

SelectorNames == {"main"}

\* What remove_channel and get_channel are called with.
ChannelRefs ==
    {ById(i) : i \in 0..MaxChannelIds} \cup {ByName(n) : n \in SelectorNames \cup {"console"}}
        \cup {ByName("channel")} \cup {ByInstance(c) : c \in Channels}

\* What get_channel is called with: also names in another case, names that contain a
\* class name, and a name that matches nothing.
GetRefs ==
    ChannelRefs \cup {ByName("Console"), ByName("TheFileLogChannel"), ByName("nonexistent")}

InitChannels ==
    /\ custom_levels = Prefilled(0)
    /\ DefaultChannels
    /\ \E chs \in ChannelLists :
          LET d == new_FlashLogger(chs)
          IN  /\ log_channels = d.log_channels
              /\ channel_id_counter = d.channel_id_counter
              /\ channel_ids = d.channel_ids
              /\ channel_selectors = d.channel_selectors
    /\ stderr = <<>>
    /\ last = Call("FlashLogger", NoChannel, None, FALSE, "None")
    /\ NoThreads
    /\ NoOutput

\* logger.add_channel(log_channel, selector)
AddChannel(log_channel, selector) ==
    /\ log_channel \in Range(log_channels) \/ channel_id_counter < MaxChannelIds
    /\ SetDispatcher(add_channel(TheDispatcher, log_channel, selector))
    /\ last' = Call("add_channel", log_channel, Single(ByName(selector)), FALSE, "None")
    /\ UNCHANGED <<custom_levels, channelVars, stderr, threadVars, outputVars>>

\* logger.remove_channel(channel)
RemoveChannel(channel) ==
    /\ SetDispatcher(remove_channel(TheDispatcher, channel))
    /\ last' = Call("remove_channel", NoChannel, Single(channel), FALSE, "None")
    /\ UNCHANGED <<custom_levels, channelVars, stderr, threadVars, outputVars>>

\* logger.get_channel(selector)
GetChannel(selector) ==
    LET r == get_channel(TheDispatcher, selector)
    IN  /\ last' = Call("get_channel", NoChannel, Single(selector), r.raised, r.value)
        /\ UNCHANGED <<custom_levels, channelVars, dispatcherVars, threadVars, outputVars>>

NextChannels ==
    \/ \E c \in Channels, selector \in SelectorNames \cup {NoSelector} :
          AddChannel(c, selector)
    \/ \E ref \in ChannelRefs : RemoveChannel(ref)
    \/ \E ref \in GetRefs : GetChannel(ref)

SpecChannels == InitChannels /\ [][NextChannels]_vars

\* The identifiers in use, and the channel registered under one.
IdsInUse(ids) == {ids[i].key : i \in 1..Len(ids)}

\* C9: identifiers are never reused.  The counter never decreases; every identifier
\* in use is below the counter; and an identifier a step binds (to a channel it was
\* not bound to before) is at least the counter before the step, hence greater than
\* every identifier handed out earlier, also after removals.
C9_IdentifiersNeverReused ==
    [][/\ channel_id_counter' >= channel_id_counter
       /\ \A i \in IdsInUse(channel_ids) : i < channel_id_counter
       /\ \A i \in IdsInUse(channel_ids') :
             (i \notin IdsInUse(channel_ids)
                  \/ dict_get(channel_ids', i) # dict_get(channel_ids, i)) =>
                 /\ i >= channel_id_counter
                 /\ i < channel_id_counter'
                 /\ \A j \in IdsInUse(channel_ids) : j < i
      ]_vars

\* C9 witness: a channel that was removed has been registered again and got an
\* identifier beyond those of the three channels' first registrations.
C9_Witness ==
    /\ last.op = "add_channel"
    /\ \E i \in IdsInUse(channel_ids) :
          /\ i >= Cardinality(Channels)
          /\ dict_get(channel_ids, i) = last.ch
    /\ 0 \notin IdsInUse(channel_ids)

\* The identifier map of the dispatcher d holds exactly its registered channels, each
\* under one identifier, and get_channel answers from it.
IdMapExact(d) ==
    /\ {d.channel_ids[i].value : i \in 1..Len(d.channel_ids)} = Range(d.log_channels)
    /\ Len(d.channel_ids) = Len(d.log_channels)
    /\ \A i, j \in 1..Len(d.channel_ids) :
          i # j => /\ d.channel_ids[i].key # d.channel_ids[j].key
                   /\ d.channel_ids[i].value # d.channel_ids[j].value
    /\ \A i \in 1..Len(d.log_channels), j \in 1..Len(d.log_channels) :
          i # j => d.log_channels[i] # d.log_channels[j]
    /\ \A i \in 0..MaxChannelIds :
          LET g == get_channel(d, ById(i))
          IN  ~g.raised => g.value \in Range(d.log_channels)

\* C10: after any add_channel and remove_channel calls the identifier map holds
\* exactly the registered channels, each under exactly one identifier; and once the
\* channel that had the identifier i is removed (by instance, identifier or name),
\* get_channel(i) raises the not-found error.
C10_IdMapExact ==
    [][LET before == TheDispatcher
           after == Dispatcher(log_channels', channel_id_counter', channel_ids',
                               channel_selectors')
       IN  /\ IdMapExact(before)
           /\ IdMapExact(after)
           /\ \A i \in IdsInUse(channel_ids) :
                 dict_get(channel_ids, i) \notin Range(log_channels') =>
                     get_channel(after, ById(i)) = NotFound
      ]_vars

\* C10 witness: the channel with identifier 0 has just been removed by its name while
\* another channel stays registered.
C10_Witness ==
    /\ last.op = "remove_channel"
    /\ last.param.ref.kind = "str"
    /\ ~dict_has(channel_selectors, last.param.ref.name)
    /\ 0 \notin IdsInUse(channel_ids)
    /\ channel_id_counter = 2
    /\ Len(log_channels) = 1
    /\ get_channel(TheDispatcher, ById(0)) = NotFound

(***************************************************************************)
(* Names: channels registered under several selectors                      *)
(***************************************************************************)

\* Two channels and two names that match no class name.
NamedChannels == {"c1", "c2"}
Names == {"main", "aux"}

NameRefs ==
    {ByName(n) : n \in Names} \cup {ByInstance(c) : c \in NamedChannels} \cup {ById(0)}

InitNames ==
    /\ custom_levels = Prefilled(0)
    /\ DefaultChannels
    /\ \E chs \in {l \in ChannelLists : Range(l) \subseteq NamedChannels} :
          LET d == new_FlashLogger(chs)
          IN  /\ log_channels = d.log_channels
              /\ channel_id_counter = d.channel_id_counter
              /\ channel_ids = d.channel_ids
              /\ channel_selectors = d.channel_selectors
    /\ stderr = <<>>
    /\ last = Call("FlashLogger", NoChannel, None, FALSE, "None")
    /\ NoThreads
    /\ NoOutput

NextNames ==
    \/ \E c \in NamedChannels, selector \in Names \cup {NoSelector} :
          AddChannel(c, selector)
    \/ \E ref \in NameRefs : RemoveChannel(ref)
    \/ \E n \in Names : GetChannel(ByName(n))

SpecNames == InitNames /\ [][NextNames]_vars

\* C11: every name in the name map refers to a registered channel, and get_channel
\* with a name never returns a channel that is not registered.
C11_NamesReferToRegistered ==
    /\ \A i \in 1..Len(channel_selectors) :
          channel_selectors[i].value \in Range(log_channels)
    /\ \A n \in Names :
          LET g == get_channel(TheDispatcher, ByName(n))
          IN  ~g.raised => g.value \in Range(log_channels)

\* The reference matches no channel registered in the dispatcher d.
MatchesNoRegistered(d, ref) ==
    CASE ref.kind = "int" ->
            ~\E i \in 1..Len(d.channel_ids) :
                /\ d.channel_ids[i].key = ref.num
                /\ d.channel_ids[i].value \in Range(d.log_channels)
      [] ref.kind = "str" ->
            ~\E i \in 1..Len(d.channel_selectors) :
                /\ d.channel_selectors[i].key = ref.name
                /\ d.channel_selectors[i].value \in Range(d.log_channels)
      [] OTHER -> ref.name \notin Range(d.log_channels)

\* C12: remove_channel with an instance that is not registered, an unknown identifier
\* or an unknown name returns without an error and leaves the channel list, the
\* identifier map, the name map and the identifier counter as they were.
C12_RemoveUnknownIsNoOp ==
    [][(last'.op = "remove_channel"
            /\ MatchesNoRegistered(TheDispatcher, last'.param.ref)) =>
          /\ ~last'.raised
          /\ UNCHANGED <<log_channels, channel_ids, channel_selectors,
                         channel_id_counter>>
      ]_vars

\* C12 witness: remove_channel was called with an identifier that is not in use
\* although it is below the length of the channel list, and two channels are there.
C12_Witness ==
    /\ last.op = "remove_channel"
    /\ last.param.ref.kind = "int"
    /\ ~dict_has(channel_ids, last.param.ref.num)
    /\ last.param.ref.num < Len(log_channels)
    /\ Len(log_channels) = 2
    /\ IdsInUse(channel_ids) = {1, 2}

IdOf(d, c) ==
    d.channel_ids[CHOOSE i \in 1..Len(d.channel_ids) : d.channel_ids[i].value = c].key

\* The lower-cased class name of c contains the lower-cased name or is contained in it.
ClassNameFits(name, c) ==
    \/ is_substring(lower(name), class_name_lower(channel_class[c]))
    \/ is_substring(class_name_lower(channel_class[c]), lower(name))

\* What the selector stands for in the dispatcher d: the registered channel with that
\* identifier; the channel bound to that name, else the channel registered first
\* (lowest identifier) among those whose class name fits; that instance if registered.
Selected(d, selector) ==
    LET registered == Range(d.log_channels)
    IN  CASE selector.kind = "int" ->
                {c \in registered : IdOf(d, c) = selector.num}
          [] selector.kind = "str" ->
                IF \E i \in 1..Len(d.channel_selectors) :
                      d.channel_selectors[i].key = selector.name
                THEN {d.channel_selectors[i].value :
                         i \in {j \in 1..Len(d.channel_selectors) :
                                   d.channel_selectors[j].key = selector.name}}
                ELSE LET fits == {c \in registered : ClassNameFits(selector.name, c)}
                     IN  {c \in fits : \A o \in fits : IdOf(d, c) <= IdOf(d, o)}
          [] OTHER -> {c \in registered : c = selector.name}

\* C14: get_channel(selector) returns the channel the selector stands for (by
\* identifier; by bound name, else by the first class-name fit in registration order;
\* by instance), raises ValueError when it stands for none, and changes no state.
C14_GetChannel ==
    [][last'.op = "get_channel" =>
          LET selected == Selected(TheDispatcher, last'.param.ref)
          IN  /\ IF selected = {}
                 THEN last'.raised /\ last'.value = "ValueError"
                 ELSE ~last'.raised /\ selected = {last'.value}
              /\ UNCHANGED <<custom_levels, channelVars, dispatcherVars>>
      ]_vars

\* C14 witness: three channels are registered, the first of them under an identifier
\* handed out after a removal, and get_channel("channel"), which fits every class
\* name, returned the first one.
C14_Witness ==
    /\ last.op = "get_channel"
    /\ last.param.ref = ByName("channel")
    /\ Len(log_channels) = 3
    /\ channel_ids[1].key > 0
    /\ ~last.raised
    /\ last.value = log_channels[1]

\* What one assignment of param alone produces, in the registry cl the assignment
\* leaves: the complement of the excluded levels; the included levels, or everything
\* when a member of the collection could not be bound; the levels from the threshold up.
AssignedAlone(param, cl) ==
    CASE param.form = "exclude" -> LogLevel \ DenotedBy(param, cl)
      [] param.form = "iterable" ->
            IF \A m \in Range(param.items) : Denotes(m, cl) # {}
            THEN DenotedBy(param, cl) ELSE LogLevel
      [] param.form = "single" ->
            UNION {{S \in LogLevel : logging_level(S, cl) >= logging_level(T, cl)} :
                      T \in Denotes(param.ref, cl)}
      [] OTHER -> LogLevel

\* C15: an assignment to log_levels that returns replaces the policy: the channel then
\* permits exactly what that assignment alone produces, which is what it produces on a
\* channel that had no policy before, and nothing else of what it permitted before.
C15_SetterReplaces ==
    [][(last'.op = "log_levels" /\ ~last'.raised) =>
          LET c == last'.ch
              fresh == AssignedAlone(last'.param, custom_levels')
          IN  /\ loggable'[c] = fresh
              /\ fresh = set_log_levels(last'.param, custom_levels).value
              /\ \A S \in loggable[c] \ fresh : S \notin loggable'[c]
              /\ \A o \in Channels \ {c} : loggable'[o] = loggable[o]
      ]_vars

\* C15 witness: an inclusion policy was assigned to a channel that had the default
\* policy or another one before; it permits INFO and ERROR only.
C15_Witness ==
    /\ last.op = "log_levels"
    /\ ~last.raised
    /\ last.param = Collection(<<AsLevel("INFO"), AsLevel("ERROR")>>)
    /\ loggable[last.ch] = {"INFO", "ERROR"}

\* The registry cl with the value v taken out of the slot that holds it.
Unbound(cl, v) == [i \in 1..NumCustomSlots |-> IF cl[i] = v THEN logging_NOTSET ELSE cl[i]]

\* The levels whose numeric value in the registry cl is that of WARNING or above.
FromWarning(cl) == {S \in LogLevel : logging_level(S, cl) >= logging_WARNING}

PolicyApplications ==
    {"log_levels", "__init__()", "__init__(minimum_log_level)",
     "__init__(include_log_levels)", "__init__(exclude_log_levels)"}

\* C16: the permitted set is a snapshot.  A step that is no policy application leaves
\* every channel's permitted set as it is, also when it binds a value in the registry,
\* and is_loggable of a number answers by the membership of that number's slot in the
\* set as it stands.  When the threshold WARNING was set while 35 was unbound, the
\* is_loggable(35) that binds 35 answers False; as long as the set is the one computed
\* then, is_loggable(35) is False; once the threshold is applied with 35 bound it is True.
C16_Snapshot ==
    [][/\ last'.op \notin PolicyApplications => loggable' = loggable
       /\ (last'.op = "is_loggable" /\ last'.param.ref.kind = "int" /\ ~last'.raised) =>
             \E S \in LogLevel :
                /\ logging_level(S, custom_levels') = last'.param.ref.num
                      \/ (last'.param.ref.num < 0 /\ S = "NOTSET")
                /\ last'.value = Bool(S \in loggable[last'.ch])
       /\ (/\ last.op \in {"log_levels", "__init__(minimum_log_level)"}
           /\ ~last.raised
           /\ last.param \in {Single(AsLevel("WARNING")), Single(AsInt(logging_WARNING))}
           /\ SlotsHolding(35, custom_levels) = {}
           /\ last'.op = "is_loggable" /\ last'.param.ref = AsInt(35) /\ ~last'.raised) =>
             /\ SlotsHolding(35, custom_levels') # {}
             /\ last'.value = "False"
       /\ \A c \in FilterChannels :
             /\ (/\ SlotsHolding(35, custom_levels) # {}
                 /\ loggable[c] = FromWarning(Unbound(custom_levels, 35))) =>
                   is_loggable(AsInt(35), loggable[c], custom_levels).value = "False"
             /\ (/\ last'.op = "log_levels" /\ last'.ch = c /\ ~last'.raised
                 /\ last'.param = Single(AsLevel("WARNING"))
                 /\ SlotsHolding(35, custom_levels') # {}) =>
                   is_loggable(AsInt(35), loggable'[c], custom_levels').value = "True"
      ]_vars

\* C16 witness: 35 is bound, the channel's set is the one the threshold WARNING
\* produced while 35 was unbound, and is_loggable(35) has just answered False.
C16_Witness ==
    /\ last.op = "is_loggable"
    /\ last.param.ref = AsInt(35)
    /\ last.value = "False"
    /\ SlotsHolding(35, custom_levels) # {}
    /\ loggable[last.ch] = FromWarning(Unbound(custom_levels, 35))
    /\ "WARNING" \in loggable[last.ch]
    /\ loggable[last.ch] # FromWarning(custom_levels)

\* C16 witness of the second half: the threshold WARNING was applied with 35 bound,
\* and the slot of 35 is permitted.
C16_WitnessReapplied ==
    /\ last.op = "log_levels"
    /\ last.param = Single(AsLevel("WARNING"))
    /\ SlotsHolding(35, custom_levels) # {}
    /\ is_loggable(AsInt(35), loggable[last.ch], custom_levels).value = "True"

(***************************************************************************)
(* The setter and is_loggable in two threads, statement by statement       *)
(***************************************************************************)

AtomicPrefills == {0, NumCustomSlots}

AtomicParams ==
    {Single(AsLevel("WARNING")),
     Collection(<<AsLevel("INFO"), AsLevel("ERROR")>>),
     Collection(<<AsInt(35), AsLevel("DEBUG")>>),
     ExcludeDict(<<AsLevel("DEBUG"), AsLevel("INFO")>>)}

AtomicQueries == {AsLevel("INFO"), AsInt(35)}

\* The thread inside the setter: the argument, the members still to convert, the local
\* set (excluded_levels or loggable_levels) built so far; previous and result are the
\* permitted set before the assignment under way and the one assigned last.
Writer(pc, param, items, acc, previous, result) ==
    [pc |-> pc, param |-> param, items |-> items, acc |-> acc,
     previous |-> previous, result |-> result]

\* The thread inside is_loggable: the level it resolved, the set it read, its answer.
Reader(pc, level, seen, value) == [pc |-> pc, level |-> level, seen |-> seen, value |-> value]

\* What one statement of the setter leaves: the thread, the channel's set, the
\* registry, and how the call ended if it did.
SetterStep(w, levels, cl, ended, raised, value) ==
    [w |-> w, levels |-> levels, custom_levels |-> cl,
     ended |-> ended, raised |-> raised, value |-> value]

\* The end of the setter: one assignment to __loggable_levels, or an exception.
setter_assign(w, r) ==
    IF r.raised
    THEN SetterStep([w EXCEPT !.pc = "idle"], w.previous, r.custom_levels,
                    TRUE, TRUE, r.value)
    ELSE SetterStep([w EXCEPT !.pc = "idle", !.result = r.value], r.value,
                    r.custom_levels, TRUE, FALSE, "None")

\* A setter that clears the channel's set and adds to it level by level.
setter_step_in_place(w, levels, cl) ==
    IF w.param.form \in {"exclude", "iterable"} /\ w.items # <<>>
    THEN LET r == to_level(Head(w.items), cl)
         IN  IF ~r.raised
             THEN LET acc == w.acc \cup {r.value}
                  IN  SetterStep([w EXCEPT !.items = Tail(@), !.acc = acc],
                                 IF w.param.form = "exclude" THEN LogLevel \ acc ELSE acc,
                                 r.custom_levels, FALSE, FALSE, "None")
             ELSE IF w.param.form = "iterable" /\ r.value \in {"TypeError", "ValueError"}
             THEN setter_assign(w, threshold_mode(w.param, r.custom_levels))
             ELSE setter_assign(w, r)
    ELSE IF w.param.form = "exclude"
    THEN setter_assign(w, Returned(LogLevel \ w.acc, cl))
    ELSE IF w.param.form = "iterable"
    THEN setter_assign(w, Returned(w.acc, cl))
    ELSE setter_assign(w, threshold_mode(w.param, cl))

\* One statement of the setter: the next member is converted and added to the local
\* set, or, the loop being over, the new set is assigned.
setter_step(w, levels, cl) ==
    IF w.param.form \in {"exclude", "iterable"} /\ w.items # <<>>
    THEN LET r == to_level(Head(w.items), cl)
         IN  IF ~r.raised
             THEN SetterStep([w EXCEPT !.items = Tail(@), !.acc = @ \cup {r.value}],
                             levels, r.custom_levels, FALSE, FALSE, "None")
             ELSE IF w.param.form = "iterable" /\ r.value \in {"TypeError", "ValueError"}
             THEN setter_assign(w, threshold_mode(w.param, r.custom_levels))
             ELSE setter_assign(w, r)
    ELSE IF w.param.form = "exclude"
    THEN setter_assign(w, Returned(LogLevel \ w.acc, cl))
    ELSE IF w.param.form = "iterable"
    THEN setter_assign(w, Returned(w.acc, cl))
    ELSE setter_assign(w, threshold_mode(w.param, cl))

InitAtomic ==
    /\ \E k \in AtomicPrefills : custom_levels = Prefilled(k)
    /\ DefaultChannels
    /\ NoDispatcher
    /\ last = Call("import", NoChannel, None, FALSE, "None")
    /\ NoOutput
    /\ global_logger = NoLogger
    /\ threads = [w |-> Writer("idle", None, <<>>, {}, loggable["c1"], loggable["c1"]),
                  r |-> Reader("idle", NoRef, {}, "None")]

\* Thread w: c1.log_levels = param is entered.
SetterEnter(param) ==
    /\ threads.w.pc = "idle"
    /\ threads' = [threads EXCEPT
                      !.w = Writer("build", param,
                                   IF param.form = "single" THEN <<>> ELSE param.items,
                                   {}, loggable["c1"], @.result)]
    /\ UNCHANGED <<custom_levels, channelVars, dispatcherVars, last, global_logger, outputVars>>

\* Thread w: the next statement of the setter.
SetterNext ==
    /\ threads.w.pc = "build"
    /\ LET n == setter_step(threads.w, loggable["c1"], custom_levels)
       IN  /\ threads' = [threads EXCEPT !.w = n.w]
           /\ loggable' = [loggable EXCEPT !["c1"] = n.levels]
           /\ custom_levels' = n.custom_levels
           /\ last' = IF n.ended
                      THEN Call("log_levels", "c1", threads.w.param, n.raised, n.value)
                      ELSE last
    /\ UNCHANGED <<backend, invoked, dispatcherVars, global_logger, outputVars>>

\* Thread r: c1.is_loggable(log_level) converts its argument.
ReaderEnter(log_level) ==
    /\ threads.r.pc = "idle"
    /\ LET r == to_level(log_level, custom_levels)
       IN  /\ custom_levels' = r.custom_levels
           /\ IF r.raised
              THEN /\ threads' = [threads EXCEPT !.r = Reader("idle", log_level, {}, r.value)]
                   /\ last' = Call("is_loggable", "c1", Single(log_level), TRUE, r.value)
              ELSE /\ threads' = [threads EXCEPT
                                     !.r = Reader("read", AsLevel(r.value), {}, "None")]
                   /\ last' = last
    /\ UNCHANGED <<channelVars, dispatcherVars, global_logger, outputVars>>

\* Thread r: `return log_level in self.__loggable_levels`.
ReaderRead ==
    /\ threads.r.pc = "read"
    /\ LET seen == loggable["c1"]
           value == Bool(threads.r.level.name \in seen)
       IN  /\ threads' = [threads EXCEPT !.r = Reader("idle", @.level, seen, value)]
           /\ last' = Call("is_loggable", "c1", Single(threads.r.level), FALSE, value)
    /\ UNCHANGED <<custom_levels, channelVars, dispatcherVars, global_logger, outputVars>>

NextAtomic ==
    \/ \E param \in AtomicParams : SetterEnter(param)
    \/ SetterNext
    \/ \E log_level \in AtomicQueries : ReaderEnter(log_level)
    \/ ReaderRead

SpecAtomic == InitAtomic /\ [][NextAtomic]_vars

\* C17: while a thread is inside the setter the channel's permitted set is the complete
\* set it had before; the set changes in one step only, to the complete set that the
\* assignment produces; and an is_loggable that reads the set meanwhile reads one of
\* these two and answers by it.
C17_AtomicPolicyChange ==
    [][LET w == threads.w
           permitted == loggable["c1"]
       IN  /\ permitted = IF w.pc = "build" THEN w.previous ELSE w.result
           /\ loggable'["c1"] # permitted =>
                 /\ w.pc = "build" /\ threads'.w.pc = "idle"
                 /\ loggable'["c1"] = AssignedAlone(w.param, custom_levels')
                 /\ loggable'["c1"] = threads'.w.result
           /\ (threads.r.pc = "read" /\ threads'.r.pc = "idle") =>
                 /\ threads'.r.seen \in {w.previous, w.result}
                 /\ threads'.r.value = Bool(threads.r.level.name \in threads'.r.seen)
      ]_vars

\* C17 witness: the setter has converted one member of its argument and not yet
\* assigned, its local set is neither the old nor the new policy, and is_loggable has
\* just read the complete old set.
C17_Witness ==
    /\ threads.w.pc = "build"
    /\ threads.w.param = Collection(<<AsLevel("INFO"), AsLevel("ERROR")>>)
    /\ threads.w.acc = {"INFO"}
    /\ threads.w.previous = LogLevel \ {"DEBUG", "INFO"}
    /\ threads.r.pc = "idle"
    /\ threads.r.seen = threads.w.previous
    /\ last.op = "is_loggable" /\ last.value = "False"

(***************************************************************************)
(* FlashLogger.log in one thread, add_channel and remove_channel in another *)
(***************************************************************************)

\* The thread inside FlashLogger.log: the position of the list iterator of
\* `for channel in self.log_channels`, the arguments, the identifiers of the channels
\* whose do_log this call invoked, in order, and the identifiers that were in use at
\* every statement of the call so far.
Logging(pc, index, level, message, called, stayed) ==
    [pc |-> pc, index |-> index, level |-> level, message |-> message,
     called |-> called, stayed |-> stayed]

InitLogRace ==
    /\ custom_levels = Prefilled(0)
    /\ DefaultChannels
    /\ \E chs \in ChannelLists :
          LET d == new_FlashLogger(chs)
          IN  /\ log_channels = d.log_channels
              /\ channel_id_counter = d.channel_id_counter
              /\ channel_ids = d.channel_ids
              /\ channel_selectors = d.channel_selectors
    /\ stderr = <<>>
    /\ last = Call("FlashLogger", NoChannel, None, FALSE, "None")
    /\ NoOutput
    /\ global_logger = NoLogger
    /\ threads = [l |-> Logging("idle", 0, NoRef, "", <<>>, {})]

\* Thread l enters logger.log(level, message): the loop gets an iterator over the list
\* object self.log_channels.
LogEnter(level, message) ==
    /\ threads.l.pc = "idle"
    /\ threads' = [threads EXCEPT
                      !.l = Logging("loop", 0, level, message, <<>>,
                                    {channel_ids[i].key : i \in 1..Len(channel_ids)})]
    /\ stderr' = <<>>
    /\ UNCHANGED <<custom_levels, channelVars, log_channels, channel_id_counter,
                   channel_ids, channel_selectors, last, global_logger, outputVars>>

\* Thread l: the list iterator yields the item at its position in the list as it is
\* now, and do_log is called on it inside try/except; or the position is at the end of
\* the list, the loop ends and log returns.
LogIterate ==
    /\ threads.l.pc = "loop"
    /\ LET l == threads.l
           stayed == l.stayed \cap {channel_ids[i].key : i \in 1..Len(channel_ids)}
       IN  IF l.index < Len(log_channels)
           THEN LET c == log_channels[l.index + 1]
                    st == dispatch(<<c>>, l.level, l.message,
                                   [custom_levels |-> custom_levels, backend |-> backend,
                                    invoked |-> invoked, stderr |-> stderr,
                                    raised |-> FALSE])
                IN  /\ custom_levels' = st.custom_levels
                    /\ backend' = st.backend
                    /\ invoked' = st.invoked
                    /\ stderr' = st.stderr
                    /\ threads' = [threads EXCEPT
                                      !.l = Logging("loop", l.index + 1, l.level, l.message,
                                                    Append(l.called,
                                                           dict_get_key(channel_ids, c)),
                                                    stayed)]
                    /\ last' = last
           ELSE /\ threads' = [threads EXCEPT
                                  !.l = Logging("returned", l.index, l.level, l.message,
                                                l.called, stayed)]
                /\ last' = Call("log", NoChannel, Single(l.level), FALSE, "None")
                /\ UNCHANGED <<custom_levels, backend, invoked, stderr>>
    /\ UNCHANGED <<loggable, log_channels, channel_id_counter, channel_ids,
                   channel_selectors, global_logger, outputVars>>

NextLogRace ==
    \/ LogEnter(AsLevel("ERROR"), "keep")
    \/ LogIterate
    \/ \E c \in Channels : AddChannel(c, NoSelector)
    \/ \E c \in Channels : RemoveChannel(ByInstance(c))

SpecLogRace == InitLogRace /\ [][NextLogRace]_vars

\* C18: when log has returned, every channel that was registered during the whole call
\* (its identifier was in use from the entry to the return) had its do_log invoked
\* exactly once by the call.
C18_StayingChannelsLoggedOnce ==
    threads.l.pc = "returned" =>
        \A id \in threads.l.stayed :
            Cardinality({k \in 1..Len(threads.l.called) : threads.l.called[k] = id}) = 1

(***************************************************************************)
(* add_channel in two threads, statement by statement                      *)
(***************************************************************************)

\* The thread inside add_channel(log_channel): the local channel_id, and the value of
\* self._channel_id_counter loaded by `+= 1`.
Adding(pc, log_channel, channel_id, loaded) ==
    [pc |-> pc, log_channel |-> log_channel, channel_id |-> channel_id, loaded |-> loaded]

AddStep(t, d) == [t |-> t, d |-> d]

\* One statement of add_channel without a selector, on the dispatcher d.
add_channel_step(t, d) ==
    CASE t.pc = "check" ->
            IF t.log_channel \in Range(d.log_channels)
            THEN AddStep([t EXCEPT !.pc = "returned"], d)
            ELSE AddStep([t EXCEPT !.pc = "append"], d)
      [] t.pc = "append" ->
            AddStep([t EXCEPT !.pc = "read_counter"],
                    [d EXCEPT !.log_channels = Append(@, t.log_channel)])
      [] t.pc = "read_counter" ->
            AddStep([t EXCEPT !.pc = "set_id", !.channel_id = d.channel_id_counter], d)
      [] t.pc = "set_id" ->
            AddStep([t EXCEPT !.pc = "load_counter"],
                    [d EXCEPT !.channel_ids = dict_set(@, t.channel_id, t.log_channel)])
      [] t.pc = "load_counter" ->
            AddStep([t EXCEPT !.pc = "store_counter", !.loaded = d.channel_id_counter], d)
      [] t.pc = "store_counter" ->
            AddStep([t EXCEPT !.pc = "returned"],
                    [d EXCEPT !.channel_id_counter = t.loaded + 1])

AddThreads == {"t1", "t2"}

\* A FlashLogger with the channel c3, and two threads about to call add_channel with
\* c1 or c2 each.
InitAddRace ==
    /\ custom_levels = Prefilled(0)
    /\ DefaultChannels
    /\ LET d == new_FlashLogger(<<"c3">>)
       IN  /\ log_channels = d.log_channels
           /\ channel_id_counter = d.channel_id_counter
           /\ channel_ids = d.channel_ids
           /\ channel_selectors = d.channel_selectors
    /\ stderr = <<>>
    /\ last = Call("FlashLogger", NoChannel, None, FALSE, "None")
    /\ NoOutput
    /\ global_logger = NoLogger
    /\ \E a, b \in {"c1", "c2"} :
          threads = [t \in AddThreads |->
                        Adding("check", IF t = "t1" THEN a ELSE b, 0, 0)]

\* The thread t executes its next statement of add_channel.
AddChannelNext(t) ==
    /\ threads[t].pc # "returned"
    /\ LET n == add_channel_step(threads[t], TheDispatcher)
       IN  /\ threads' = [threads EXCEPT ![t] = n.t]
           /\ SetDispatcher(n.d)
           /\ last' = IF n.t.pc = "returned"
                      THEN Call("add_channel", threads[t].log_channel,
                                Single(ByName(NoSelector)), FALSE, "None")
                      ELSE last
    /\ UNCHANGED <<custom_levels, channelVars, stderr, global_logger, outputVars>>

NextAddRace == \E t \in AddThreads : AddChannelNext(t)

SpecAddRace == InitAddRace /\ [][NextAddRace]_vars

\* C19: when both add_channel calls have returned: with two distinct channels both are
\* in the channel list, under two distinct identifiers, get_channel of each identifier
\* returns its channel, and the counter has advanced by two; with the same channel for
\* both, the channel is in the list once.
C19_RegistrationExclusive ==
    (\A t \in AddThreads : threads[t].pc = "returned") =>
        LET a == threads["t1"].log_channel
            b == threads["t2"].log_channel
            d == TheDispatcher
            ids(c) == {d.channel_ids[i].key :
                          i \in {j \in 1..Len(d.channel_ids) : d.channel_ids[j].value = c}}
        IN  IF a # b
            THEN /\ {a, b} \subseteq Range(log_channels)
                 /\ Len(log_channels) = 3
                 /\ ids(a) # {} /\ ids(b) # {} /\ ids(a) \cap ids(b) = {}
                 /\ \A i \in ids(a) : get_channel(d, ById(i)) = Found(a)
                 /\ \A i \in ids(b) : get_channel(d, ById(i)) = Found(b)
                 /\ channel_id_counter = new_FlashLogger(<<"c3">>).channel_id_counter + 2
            ELSE Cardinality({i \in 1..Len(log_channels) : log_channels[i] = a}) = 1

(***************************************************************************)
(* get_logger in two threads, statement by statement                       *)
(***************************************************************************)

\* The arguments of get_logger: console is None or ColorScheme.Default.COLOR, log_file
\* is None or a path.
GetLoggerArgs ==
    {<<c, f>> : c \in {"None", "COLOR"}, f \in {"None", "app.log", "other.log"}}

\* FileLogChannel(log_file, ...): a new object, that is one the dispatcher d does not
\* hold.
new_FileLogChannel(log_file, d) ==
    LET objects == <<"c2", "c4", "c5", "c6">>
        new == {i \in 1..Len(objects) :
                   /\ log_file_of[objects[i]] = log_file
                   /\ objects[i] \notin Range(d.log_channels)}
    IN  objects[Min(new)]

\* The thread inside get_logger(console, log_file), and the FlashLogger objects its
\* calls have returned so far.
Getting(pc, console, log_file, returned) ==
    [pc |-> pc, console |-> console, log_file |-> log_file, returned |-> returned]

GetStep(t, g, d) == [t |-> t, global_logger |-> g, d |-> d]

\* get_logger that creates a file channel whenever log_file is given.
get_logger_step_no_file_check(t, g, d) ==
    CASE t.pc = "check" ->
            GetStep([t EXCEPT !.pc = IF g = NoLogger THEN "create" ELSE "console"], g, d)
      [] t.pc = "create" ->
            GetStep([t EXCEPT !.pc = "console"], g + 1, new_FlashLogger(<<"c1">>))
      [] t.pc = "console" ->
            LET has_console == \E i \in 1..Len(d.log_channels) :
                                  channel_class[d.log_channels[i]] = "LogChannelConsole"
            IN  GetStep([t EXCEPT !.pc = "file"], g,
                        IF t.console # "None" /\ t.console # "PLAIN_TEXT" /\ ~has_console
                        THEN add_channel(d, "c1", NoSelector) ELSE d)
      [] t.pc = "file" ->
            LET has_file == FALSE
            IN  GetStep([t EXCEPT !.pc = "return"], g,
                        IF t.log_file # "None" /\ ~has_file
                        THEN add_channel(d, new_FileLogChannel(t.log_file, d), NoSelector)
                        ELSE d)
      [] t.pc = "return" ->
            GetStep([t EXCEPT !.pc = "idle", !.returned = @ \cup {g}], g, d)

\* One statement of get_logger; g is _global_logger and d the fields of the object it
\* refers to.  The console channel is c1 and the file channel for the path is c2.
get_logger_step(t, g, d) ==
    CASE t.pc = "check" ->
            GetStep([t EXCEPT !.pc = IF g = NoLogger THEN "create" ELSE "console"], g, d)
      [] t.pc = "create" ->
            GetStep([t EXCEPT !.pc = "console"], g + 1, new_FlashLogger(<<"c1">>))
      [] t.pc = "console" ->
            LET has_console == \E i \in 1..Len(d.log_channels) :
                                  channel_class[d.log_channels[i]] = "LogChannelConsole"
            IN  GetStep([t EXCEPT !.pc = "file"], g,
                        IF t.console # "None" /\ t.console # "PLAIN_TEXT" /\ ~has_console
                        THEN add_channel(d, "c1", NoSelector) ELSE d)
      [] t.pc = "file" ->
            LET has_file == \E i \in 1..Len(d.log_channels) :
                               /\ channel_class[d.log_channels[i]] = "FileLogChannel"
                               /\ log_file_of[d.log_channels[i]] = t.log_file
            IN  GetStep([t EXCEPT !.pc = "return"], g,
                        IF t.log_file # "None" /\ ~has_file
                        THEN add_channel(d, new_FileLogChannel(t.log_file, d), NoSelector)
                        ELSE d)
      [] t.pc = "return" ->
            GetStep([t EXCEPT !.pc = "idle", !.returned = @ \cup {g}], g, d)

GetThreads == {"g1", "g2"}

\* The module was imported: _global_logger is None.
InitGetLogger ==
    /\ custom_levels = Prefilled(0)
    /\ DefaultChannels
    /\ NoDispatcher
    /\ last = Call("import", NoChannel, None, FALSE, "None")
    /\ NoOutput
    /\ global_logger = NoLogger
    /\ threads = [t \in GetThreads |-> Getting("idle", "None", "None", {})]

\* The thread t calls get_logger(console, log_file).
GetLoggerEnter(t, console, log_file) ==
    /\ threads[t].pc = "idle"
    /\ threads' = [threads EXCEPT
                      ![t] = Getting("check", console, log_file, @.returned)]
    /\ UNCHANGED <<custom_levels, channelVars, dispatcherVars, last, global_logger, outputVars>>

\* The thread t executes its next statement of get_logger.
GetLoggerNext(t) ==
    /\ threads[t].pc # "idle"
    /\ LET n == get_logger_step(threads[t], global_logger, TheDispatcher)
       IN  /\ threads' = [threads EXCEPT ![t] = n.t]
           /\ global_logger' = n.global_logger
           /\ SetDispatcher(n.d)
           /\ last' = IF n.t.pc = "idle"
                      THEN Call("get_logger", NoChannel, None, FALSE, "FlashLogger")
                      ELSE last
    /\ UNCHANGED <<custom_levels, channelVars, stderr, outputVars>>

NextGetLogger ==
    \/ \E t \in GetThreads, args \in GetLoggerArgs : GetLoggerEnter(t, args[1], args[2])
    \/ \E t \in GetThreads : GetLoggerNext(t)

SpecGetLogger == InitGetLogger /\ [][NextGetLogger]_vars

\* C20: one FlashLogger object is ever stored in _global_logger, and every get_logger
\* call of every thread returns that object; it holds a console channel first.
C20_GlobalLoggerOnce ==
    /\ global_logger \in {NoLogger, 1}
    /\ \A t \in GetThreads : threads[t].returned \subseteq {1}
    /\ global_logger # NoLogger =>
          /\ log_channels # <<>>
          /\ channel_class[log_channels[1]] = "LogChannelConsole"

\* get_logger called by one thread only, one call after the other.
NextGetLoggerSequential ==
    \/ \E args \in GetLoggerArgs : GetLoggerEnter("g1", args[1], args[2])
    \/ GetLoggerNext("g1")

SpecGetLoggerSequential == InitGetLogger /\ [][NextGetLoggerSequential]_vars

\* The console channels, and the file channels with the target path f, in the list.
ConsoleChannels(chs) ==
    {i \in 1..Len(chs) : channel_class[chs[i]] = "LogChannelConsole"}
FileChannels(chs, f) ==
    {i \in 1..Len(chs) : channel_class[chs[i]] = "FileLogChannel" /\ log_file_of[chs[i]] = f}

Paths == {"app.log", "other.log"}

\* C21: with sequential get_logger calls the global FlashLogger holds at most one
\* console channel and at most one file channel per path.  A step of a call adds one
\* channel at most, and only a console or file channel of which no equivalent one was
\* registered; no channel is taken away; and when a call returns, a console channel
\* and the file channel for its log_file are registered, so that an equal later call
\* finds both and adds nothing.
C21_NoEquivalentChannelTwice ==
    [][/\ Cardinality(ConsoleChannels(log_channels')) <= 1
       /\ \A f \in Paths : Cardinality(FileChannels(log_channels', f)) <= 1
       /\ global_logger # NoLogger =>
             /\ global_logger' = global_logger
             /\ SubSeq(log_channels', 1, Len(log_channels)) = log_channels
             /\ Len(log_channels') <= Len(log_channels) + 1
             /\ Len(log_channels') = Len(log_channels) + 1 =>
                   LET c == log_channels'[Len(log_channels')]
                   IN  IF channel_class[c] = "LogChannelConsole"
                       THEN /\ ConsoleChannels(log_channels) = {}
                            /\ threads["g1"].console # "None"
                       ELSE /\ channel_class[c] = "FileLogChannel"
                            /\ log_file_of[c] = threads["g1"].log_file
                            /\ FileChannels(log_channels, log_file_of[c]) = {}
       /\ (threads["g1"].pc = "return" /\ threads'["g1"].pc = "idle") =>
             /\ ConsoleChannels(log_channels') # {}
             /\ threads["g1"].log_file # "None" =>
                   FileChannels(log_channels', threads["g1"].log_file) # {}
             /\ log_channels' = log_channels
      ]_vars

\* C21 witness: get_logger(log_file="app.log") has returned for the second time at
\* least, after a call for "other.log": one console channel and one file channel for
\* each path are registered, the one for "app.log" before the other.
C21_Witness ==
    /\ last.op = "get_logger"
    /\ threads["g1"].pc = "idle"
    /\ threads["g1"].log_file = "app.log"
    /\ Len(log_channels) = 3
    /\ log_file_of[log_channels[2]] = "app.log"
    /\ log_file_of[log_channels[3]] = "other.log"

\* A policy parameter that is invalid in the registry cl: of a wrong type (None here),
\* or a collection with a number that is neither standard nor bound while no slot is
\* free.
InvalidPolicy(param, cl) ==
    \/ param.form = "None"
    \/ /\ param.form = "iterable"
       /\ \E i \in 1..Len(param.items) :
             /\ param.items[i].kind = "int"
             /\ param.items[i].num >= 0
             /\ param.items[i].num \notin DOMAIN standard_mapping
             /\ SlotsHolding(param.items[i].num, cl) = {}
             /\ FreeSlots(cl) = {}

\* C22: an assignment of an invalid policy parameter to log_levels raises an error to
\* the caller and leaves the channel's permitted set as it was.
C22_InvalidPolicyRaises ==
    [][(last'.op = "log_levels" /\ InvalidPolicy(last'.param, custom_levels)) =>
          /\ last'.raised
          /\ loggable' = loggable
      ]_vars

\* The reference cannot be resolved in the registry cl: an unknown name, or a number
\* that needs a slot while none is free.
Unresolvable(ref, cl) ==
    \/ ref.kind = "str" /\ upper(ref.name) \notin LogLevel
    \/ /\ ref.kind = "int"
       /\ ref.num >= 0
       /\ ref.num \notin DOMAIN standard_mapping
       /\ SlotsHolding(ref.num, cl) = {}
       /\ FreeSlots(cl) = {}

\* C23: FlashLogger.log with a level that cannot be resolved raises the resolution
\* error to the caller and hands nothing to any channel's backend.
C23_ResolutionFailureIsFatal ==
    [][(last'.op = "log" /\ Unresolvable(last'.param.ref, custom_levels)) =>
          /\ last'.raised
          /\ backend' = backend
      ]_vars

(***************************************************************************)
(* Construction: FlashLogger(log_channels, console, log_file)              *)
(***************************************************************************)

\* The longest iterable passed as log_channels.
MaxArgChannels == 2

\* The log_channels argument: None, one channel, an iterable of channels (which may
\* name a channel twice), or an object that is neither.
ChannelArgs ==
    {[form |-> "None", items |-> <<>>], [form |-> "other", items |-> <<>>]}
        \cup {[form |-> "channel", items |-> <<c>>] : c \in Channels}
        \cup {[form |-> "iterable", items |-> chs] :
                 chs \in UNION {[1..n -> Channels] : n \in 0..MaxArgChannels}}

FlashLoggerArgs ==
    [log_channels : ChannelArgs,
     console : {"None", "NONE", "PLAIN_TEXT", "COLOR"},
     log_file : {"None", "app.log"}]

\* channels_to_add of __init__: the given channels, then the console channel it
\* creates (c7), then the file channel it creates for log_file (c5 or c6): objects
\* that did not exist when the arguments were passed.
channels_to_add(args) ==
    LET given == IF args.log_channels.form \in {"channel", "iterable"}
                 THEN args.log_channels.items ELSE <<>>
        with_console == IF args.console # "None" /\ args.console # "NONE"
                        THEN Append(given, "c7") ELSE given
    IN  IF args.log_file # "None"
        THEN Append(with_console,
                    CHOOSE c \in {"c5", "c6"} : log_file_of[c] = args.log_file)
        ELSE with_console

\* __init__ that registers whatever it was given, without the check for no channels.
FlashLogger_init_without_check(args) ==
    [raised |-> FALSE, value |-> "FlashLogger", d |-> new_FlashLogger(channels_to_add(args))]

\* FlashLogger.__init__: ValueError when there is nothing to add, otherwise the
\* channels are registered one by one with add_channel.
FlashLogger_init(args) ==
    IF channels_to_add(args) = <<>>
    THEN [raised |-> TRUE, value |-> "ValueError", d |-> Dispatcher(<<>>, 0, <<>>, <<>>)]
    ELSE [raised |-> FALSE, value |-> "FlashLogger",
          d |-> new_FlashLogger(channels_to_add(args))]

\* A call as Call, with the constructor's arguments as its parameter.
InitConstruct ==
    /\ custom_levels = Prefilled(0)
    /\ DefaultChannels
    /\ NoDispatcher
    /\ last = Call("import", NoChannel, None, FALSE, "None")
    /\ NoThreads
    /\ NoOutput

\* logger = FlashLogger(**args): when the constructor raises, logger keeps the object
\* it was bound to before, if any.
CreateFlashLogger(args) ==
    /\ LET r == FlashLogger_init(args)
       IN  /\ last' = Call("FlashLogger", NoChannel, args, r.raised, r.value)
           /\ IF r.raised THEN UNCHANGED <<log_channels, channel_id_counter,
                                            channel_ids, channel_selectors>>
              ELSE SetDispatcher(r.d)
    /\ UNCHANGED <<custom_levels, channelVars, stderr, threadVars, outputVars>>

NextConstruct == \E args \in FlashLoggerArgs : CreateFlashLogger(args)

SpecConstruct == InitConstruct /\ [][NextConstruct]_vars

\* No channel is given and none is requested.
ZeroChannels(args) ==
    /\ args.log_channels.form \in {"None", "other"} \/ args.log_channels.items = <<>>
    /\ args.console \in {"None", "NONE"}
    /\ args.log_file = "None"

\* The position at which the channel c is first named in the sequence chs.
FirstAt(c, chs) == Min({i \in 1..Len(chs) : chs[i] = c})

C24_WitnessNoChannels ==
    /\ last.op = "FlashLogger"
    /\ last.raised
    /\ ZeroChannels(last.param)

(***************************************************************************)
(* The call site: FlashLogger.log(level, message, file=.., line=..)        *)
(***************************************************************************)

\* The calls of log on one logger.
MaxCallSiteLogs == 1

\* An optional value: <<>> is None and <<v>> is the value v.
Absent == <<>>
Given(v) == <<v>>

\* What the caller passes as file and as line (a keyword left out reads as None with
\* kwargs.get), and what _get_call_site_info returns: the caller's file and line, or
\* (None, None) when there is no such frame.
FileArgs == {Absent, Given(""), Given("given.py")}
LineArgs == {Absent, Given(0), Given(7)}
Detections ==
    {[file |-> Absent, line |-> Absent], [file |-> Given("caller.py"), line |-> Given(12)]}

\* The two keywords set so that detection replaces both as soon as one is missing.
call_site_both_or_none(file, line, detected) ==
    IF file = Absent \/ line = Absent
    THEN [file |-> detected.file, line |-> detected.line]
    ELSE [file |-> file, line |-> line]

\* kwargs['file'] and kwargs['line'] as FlashLogger.log sets them.
call_site(file, line, detected) ==
    [file |-> IF (file = Absent \/ line = Absent) /\ file = Absent
              THEN detected.file ELSE file,
     line |-> IF (file = Absent \/ line = Absent) /\ line = Absent
              THEN detected.line ELSE line]

InitCallSite ==
    /\ custom_levels = Prefilled(0)
    /\ DefaultChannels
    /\ \E chs \in ChannelLists :
          LET d == new_FlashLogger(chs)
          IN  /\ log_channels = d.log_channels
              /\ channel_id_counter = d.channel_id_counter
              /\ channel_ids = d.channel_ids
              /\ channel_selectors = d.channel_selectors
    /\ stderr = <<>>
    /\ last = Call("FlashLogger", NoChannel, None, FALSE, "None")
    /\ NoThreads
    /\ NoOutput

\* logger.log(level, message, file=file, line=line) while stack inspection returns
\* detected: every channel's do_log is called with the two keywords.
LogFrom(level, message, file, line, detected) ==
    /\ Len(invoked[log_channels[1]]) < MaxCallSiteLogs
    /\ LET kwargs == call_site(file, line, detected)
           st == dispatch(log_channels, level, message,
                          [custom_levels |-> custom_levels, backend |-> backend,
                           invoked |-> invoked, stderr |-> <<>>, raised |-> FALSE])
       IN  /\ custom_levels' = st.custom_levels
           /\ backend' = st.backend
           /\ invoked' = [c \in Channels |->
                             IF c \in Range(log_channels)
                             THEN Append(invoked[c],
                                         <<level, message, kwargs.file, kwargs.line>>)
                             ELSE invoked[c]]
           /\ stderr' = st.stderr
           /\ last' = Call("log", NoChannel,
                           [ref |-> level, file |-> file, line |-> line,
                            detected |-> detected],
                           st.raised, IF st.raised THEN "Exception" ELSE "None")
    /\ UNCHANGED <<loggable, log_channels, channel_id_counter, channel_ids,
                   channel_selectors, threadVars, outputVars>>

NextCallSite ==
    \E file \in FileArgs, line \in LineArgs, detected \in Detections :
        LogFrom(AsLevel("ERROR"), "m", file, line, detected)

SpecCallSite == InitCallSite /\ [][NextCallSite]_vars

C25_WitnessNothingDetected ==
    /\ last.op = "log"
    /\ ~last.raised
    /\ \E c \in Range(log_channels) :
          invoked[c] = <<<<AsLevel("ERROR"), "m", Absent, Absent>>>>

(***************************************************************************)
(* Output formats and the handlers of the logging module:                  *)
(* flashlogger/log_channel_abc.py, log_channel_console.py,                 *)
(* log_channel_file.py                                                     *)
(***************************************************************************)

OutputFormat == {"HUMAN_READABLE", "JSON_PRETTY", "JSON_LINES", "CUSTOM"}

\* An output_format argument: an OutputFormat member, a string, another object, None.
Member(m) == [kind |-> "member", name |-> m]
Name(s) == [kind |-> "str", name |-> s]
OtherObject == [kind |-> "other", name |-> ""]
NoFormat == [kind |-> "None", name |-> ""]

\* How a call that sets formats ends: of is output_format and h is handlers.
Formatted(raised, value, of, h) == [raised |-> raised, value |-> value, of |-> of, h |-> h]

\* The level of the logger "flashlogger.log_channels", set in get_shared_logger.
shared_logger_level == logging_DEBUG

\* LogChannelABC.set_output_format of the channel c.
LogChannelABC_set_output_format(c, mode, of, h) ==
    IF mode.kind = "str"
    THEN IF upper(mode.name) \in OutputFormat
         THEN Formatted(FALSE, "None", [of EXCEPT ![c] = upper(mode.name)], h)
         ELSE Formatted(TRUE, "KeyError", of, h)
    ELSE IF mode.kind # "member" THEN Formatted(TRUE, "ValueError", of, h)
    ELSE Formatted(FALSE, "None", [of EXCEPT ![c] = mode.name], h)

\* LogChannelConsole.set_output_format: the attribute, then the output_format of
\* every ConsoleFormatter among the handlers of self._logger, the shared logger.
LogChannelConsole_set_output_format(c, mode, of, h) ==
    LET r == LogChannelABC_set_output_format(c, mode, of, h)
    IN  IF r.raised THEN r
        ELSE Formatted(FALSE, "None", r.of,
                       [h EXCEPT !.shared =
                           [i \in 1..Len(h.shared) |->
                               IF h.shared[i].formatter = "ConsoleFormatter"
                               THEN [h.shared[i] EXCEPT !.output_format = r.of[c]]
                               ELSE h.shared[i]]])

\* channel.set_output_format(mode) by the class of the channel; only the console
\* channel overrides it.
channel_set_output_format(c, mode, of, h) ==
    IF channel_class[c] = "LogChannelConsole"
    THEN LogChannelConsole_set_output_format(c, mode, of, h)
    ELSE LogChannelABC_set_output_format(c, mode, of, h)

\* The loop of FlashLogger.set_output_format over the channels; an exception of a
\* channel leaves the loop.
RECURSIVE set_output_format_all(_, _, _, _)
set_output_format_all(chs, mode, of, h) ==
    IF chs = <<>> THEN Formatted(FALSE, "None", of, h)
    ELSE LET r == channel_set_output_format(Head(chs), mode, of, h)
         IN  IF r.raised THEN r
             ELSE set_output_format_all(Tail(chs), mode, r.of, r.h)

\* A set_output_format of the logger that reaches the console channels only.
FlashLogger_set_output_format_consoles_only(chs, mode, of, h) ==
    set_output_format_all(
        SelectSeq(chs, LAMBDA c : channel_class[c] = "LogChannelConsole"),
        IF mode.kind = "str" THEN Member(upper(mode.name)) ELSE mode, of, h)

\* FlashLogger.set_output_format: a string is looked up by its upper-case name (the
\* empty string stands for HUMAN_READABLE), then every channel is set.
FlashLogger_set_output_format(chs, mode, of, h) ==
    IF mode.kind = "str" /\ mode.name # "" /\ upper(mode.name) \notin OutputFormat
    THEN Formatted(TRUE, "KeyError", of, h)
    ELSE set_output_format_all(
             chs,
             IF mode.kind = "str"
             THEN Member(IF mode.name = "" THEN "HUMAN_READABLE" ELSE upper(mode.name))
             ELSE mode,
             of, h)

\* self.output_format after __init__: HUMAN_READABLE unless output_format is given.
init_output_format(format) ==
    IF format.kind = "None" THEN "HUMAN_READABLE"
    ELSE IF format.kind = "str" THEN upper(format.name)
    ELSE format.name

\* LogChannelConsole(output_format=..): the channel uses the shared logger, and adds
\* a handler with a ConsoleFormatter of its own format only when that logger has none.
LogChannelConsole_init(c, format, of, h) ==
    LET fmt == init_output_format(format)
    IN  Formatted(FALSE, "None", (c :> fmt) @@ of,
                  IF \E i \in 1..Len(h.shared) : h.shared[i].formatter = "ConsoleFormatter"
                  THEN h
                  ELSE [h EXCEPT !.shared =
                           Append(@, [target |-> "console",
                                      formatter |-> "ConsoleFormatter",
                                      output_format |-> fmt])])

\* FileLogChannel(log_filename, output_format=..): a FileHandler for the file with a
\* FileLogFormatter is handed to logging.basicConfig, which installs it on the root
\* logger only when the root logger has no handler yet.
FileLogChannel_init(c, format, of, h) ==
    LET fmt == init_output_format(format)
    IN  Formatted(FALSE, "None", (c :> fmt) @@ of,
                  IF h.root = <<>>
                  THEN [h EXCEPT !.root = <<[target |-> log_file_of[c],
                                             formatter |-> "FileLogFormatter",
                                             output_format |-> fmt]>>]
                  ELSE h)

\* The constructors of the channels chs called in that order; args gives the
\* output_format argument of each.
RECURSIVE construct_all(_, _, _, _)
construct_all(chs, args, of, h) ==
    IF chs = <<>> THEN Formatted(FALSE, "None", of, h)
    ELSE LET c == Head(chs)
             r == IF channel_class[c] = "LogChannelConsole"
                  THEN LogChannelConsole_init(c, args[c], of, h)
                  ELSE FileLogChannel_init(c, args[c], of, h)
         IN  construct_all(Tail(chs), args, r.of, r.h)

\* Handler.handle of each handler in hs for the record rec of the channel c: the
\* record is written to the handler's target in the format of the handler's formatter.
RECURSIVE handle(_, _, _, _)
handle(hs, rec, c, w) ==
    IF hs = <<>> THEN w
    ELSE handle(Tail(hs), rec, c,
                [w EXCEPT ![Head(hs).target] =
                    Append(@, [levelno |-> rec.levelno, message |-> rec.message,
                               output_format |-> Head(hs).output_format,
                               channel |-> c])])

\* What the logging module does with the call r.handed that do_log of the channel c
\* made: the console channel calls the shared logger, whose records go to its own
\* handlers and, as it propagates, to those of the root logger; the file channel
\* calls the root logger.  A logger drops a record below its level.
emit(c, r, h, w) ==
    IF r.raised \/ r.handed = <<>> THEN w
    ELSE LET rec == r.handed[1]
         IN  IF channel_class[c] = "LogChannelConsole"
             THEN IF rec.levelno >= shared_logger_level
                  THEN handle(h.shared \o h.root, rec, c, w) ELSE w
             ELSE IF rec.levelno >= root_logger_level
                  THEN handle(h.root, rec, c, w) ELSE w

(***************************************************************************)
(* Formats: two console channels and a file channel in one logger          *)
(***************************************************************************)

\* The records written to the console.
MaxRendered == 1

FormatChannels == {"c1", "c7", "c2"}

\* The orders in which the three channels are constructed and registered.
FormatOrders ==
    {chs \in [1..3 -> FormatChannels] : \A i, j \in 1..3 : i # j => chs[i] # chs[j]}

FormatModes ==
    {Member("JSON_PRETTY"), Name("json_lines"), Name("bogus"), OtherObject}

InitFormat ==
    /\ custom_levels = Prefilled(0)
    /\ loggable = [c \in FormatChannels |->
                      configure_levels(None, None, None, custom_levels).value]
    /\ backend = [c \in FormatChannels |-> <<>>]
    /\ invoked = [c \in FormatChannels |-> <<>>]
    /\ stderr = <<>>
    /\ last = Call("FlashLogger", NoChannel, None, FALSE, "None")
    /\ NoThreads
    /\ custom_str_map = <<>>
    /\ written = [s \in {"console", "app.log"} |-> <<>>]
    /\ \E chs \in FormatOrders,
          args \in {a \in [FormatChannels -> {NoFormat, Member("JSON_LINES")}] :
                       a["c2"] = NoFormat} :
          LET r == construct_all(chs, args, <<>>, [shared |-> <<>>, root |-> <<>>])
              d == new_FlashLogger(chs)
          IN  /\ output_format = r.of
              /\ handlers = r.h
              /\ log_channels = d.log_channels
              /\ channel_id_counter = d.channel_id_counter
              /\ channel_ids = d.channel_ids
              /\ channel_selectors = d.channel_selectors

\* channel.set_output_format(mode)
ChannelSetOutputFormat(c, mode) ==
    /\ LET r == channel_set_output_format(c, mode, output_format, handlers)
       IN  /\ output_format' = r.of
           /\ handlers' = r.h
           /\ last' = Call("channel.set_output_format", c, mode, r.raised, r.value)
    /\ UNCHANGED <<custom_levels, channelVars, dispatcherVars, threadVars, written,
                   custom_str_map>>

\* logger.set_output_format(mode)
FlashLoggerSetOutputFormat(mode) ==
    /\ LET r == FlashLogger_set_output_format(log_channels, mode, output_format, handlers)
       IN  /\ output_format' = r.of
           /\ handlers' = r.h
           /\ last' = Call("set_output_format", NoChannel, mode, r.raised, r.value)
    /\ UNCHANGED <<custom_levels, channelVars, dispatcherVars, threadVars, written,
                   custom_str_map>>

\* channel.do_log(level, message) on a console channel.
ConsoleDoLog(c, level, message) ==
    /\ channel_class[c] = "LogChannelConsole"
    /\ Len(written["console"]) < MaxRendered
    /\ LET r == do_log(channel_class[c], level, message, FALSE, loggable[c],
                       custom_levels)
       IN  /\ custom_levels' = r.custom_levels
           /\ backend' = [backend EXCEPT ![c] = @ \o r.handed]
           /\ invoked' = [invoked EXCEPT ![c] = Append(@, <<level, message>>)]
           /\ written' = emit(c, r, handlers, written)
           /\ last' = Call("do_log", c, Single(level), r.raised, r.value)
    /\ UNCHANGED <<loggable, dispatcherVars, threadVars, output_format, handlers,
                   custom_str_map>>

NextFormat ==
    \/ \E c \in FormatChannels, mode \in FormatModes : ChannelSetOutputFormat(c, mode)
    \/ \E mode \in FormatModes : FlashLoggerSetOutputFormat(mode)
    \/ \E c \in FormatChannels : ConsoleDoLog(c, AsLevel("ERROR"), "m")

SpecFormat == InitFormat /\ [][NextFormat]_vars

\* The mode names a format: a member, or a string that is a member's name in any case.
ValidMode(mode) ==
    \/ mode.kind = "member" /\ mode.name \in OutputFormat
    \/ mode.kind = "str" /\ upper(mode.name) \in OutputFormat

\* C26: after FlashLogger.set_output_format(mode) with a member or a member's name in
\* any case, output_format of every registered channel is that member, whatever the
\* formats were before.
C26_FormatBroadcast ==
    [][(last'.op = "set_output_format" /\ ValidMode(last'.param)) =>
          /\ ~last'.raised
          /\ \A c \in Range(log_channels) :
                output_format'[c] = IF last'.param.kind = "str"
                                    THEN upper(last'.param.name) ELSE last'.param.name
      ]_vars

\* The logger was given a lower-case name, and its three channels have the format of
\* that name.
C26_Witness ==
    /\ last.op = "set_output_format"
    /\ last.param = Name("json_lines")
    /\ \A c \in FormatChannels : output_format[c] = "JSON_LINES"
    /\ Len(log_channels) = 3

\* C29: a record of a console channel is rendered in that channel's own output_format,
\* whatever was set on or passed to the constructor of another channel.
C29_FormatPerChannel ==
    [][(last'.op = "do_log" /\ channel_class[last'.ch] = "LogChannelConsole") =>
          \A i \in Len(written["console"]) + 1..Len(written'["console"]) :
              written'["console"][i].output_format = output_format[last'.ch]
      ]_vars

(***************************************************************************)
(* Labels: LogLevel.custom_str_map, set_str_repr, clear_str_reprs, str()   *)
(***************************************************************************)

\* self.name.lower() of every member.
name_lower ==
    ("NOTSET" :> "notset") @@ ("DEBUG" :> "debug") @@ ("INFO" :> "info") @@
    ("WARNING" :> "warning") @@ ("ERROR" :> "error") @@ ("FATAL" :> "fatal") @@
    ("CRITICAL" :> "critical") @@ ("COMMAND" :> "command") @@
    ("COMMAND_OUTPUT" :> "command_output") @@ ("COMMAND_STDERR" :> "command_stderr") @@
    ("CUSTOM0" :> "custom0") @@ ("CUSTOM1" :> "custom1") @@ ("CUSTOM2" :> "custom2") @@
    ("CUSTOM3" :> "custom3") @@ ("CUSTOM4" :> "custom4") @@ ("CUSTOM5" :> "custom5") @@
    ("CUSTOM6" :> "custom6") @@ ("CUSTOM7" :> "custom7") @@ ("CUSTOM8" :> "custom8") @@
    ("CUSTOM9" :> "custom9")

\* LogLevel.__str__: custom_str_map.get(self, self.name.lower())
LogLevel_str(level, str_map) ==
    IF dict_has(str_map, level) THEN dict_get(str_map, level) ELSE name_lower[level]

\* A set_str_repr that starts a new map with the one label.
set_str_repr_alone(str_map, level, representation) ==
    <<[key |-> level, value |-> representation]>>

\* LogLevel.set_str_repr: custom_str_map[level] = representation
set_str_repr(str_map, level, representation) == dict_set(str_map, level, representation)

\* LogLevel.set_str_reprs: custom_str_map.update(new_map)
RECURSIVE set_str_reprs(_, _)
set_str_reprs(str_map, new_map) ==
    IF new_map = <<>> THEN str_map
    ELSE set_str_reprs(dict_set(str_map, Head(new_map).key, Head(new_map).value),
                       Tail(new_map))

\* LogLevel.clear_str_reprs: custom_str_map.clear()
clear_str_reprs(str_map) == <<>>

LabelledLevels == {"INFO", "FATAL", "CUSTOM0"}
Labels == {"TRACE", "info"}

InitLabels ==
    /\ \E k \in {0, 1} : custom_levels = Prefilled(k)
    /\ DefaultChannels
    /\ NoDispatcher
    /\ last = Call("import", NoChannel, None, FALSE, "None")
    /\ NoThreads
    /\ NoOutput

\* LogLevel.set_str_repr(level, representation)
SetStrRepr(level, representation) ==
    /\ custom_str_map' = set_str_repr(custom_str_map, level, representation)
    /\ last' = Call("set_str_repr", level, representation, FALSE, "None")
    /\ UNCHANGED <<custom_levels, channelVars, dispatcherVars, threadVars,
                   output_format, handlers, written>>

\* LogLevel.set_str_reprs({LogLevel.INFO: .., LogLevel.ERROR: ..})
SetStrReprs(new_map) ==
    /\ custom_str_map' = set_str_reprs(custom_str_map, new_map)
    /\ last' = Call("set_str_reprs", NoChannel, new_map, FALSE, "None")
    /\ UNCHANGED <<custom_levels, channelVars, dispatcherVars, threadVars,
                   output_format, handlers, written>>

\* LogLevel.clear_str_reprs()
ClearStrReprs ==
    /\ custom_str_map' = clear_str_reprs(custom_str_map)
    /\ last' = Call("clear_str_reprs", NoChannel, None, FALSE, "None")
    /\ UNCHANGED <<custom_levels, channelVars, dispatcherVars, threadVars,
                   output_format, handlers, written>>

\* str(level)
Str(level) ==
    /\ last' = Call("str", level, None, FALSE, LogLevel_str(level, custom_str_map))
    /\ UNCHANGED <<custom_levels, channelVars, dispatcherVars, threadVars, outputVars>>

\* LogLevel.custom_level(level, representation): the label is stored when the call
\* binds a free slot.
CustomLevelLabelled(level, representation) ==
    /\ LET r == custom_level(level, custom_levels)
       IN  /\ custom_levels' = r.custom_levels
           /\ custom_str_map' =
                 IF ~r.raised /\ r.custom_levels # custom_levels
                 THEN dict_set(custom_str_map, r.value, representation)
                 ELSE custom_str_map
           /\ last' = Call("custom_level", NoChannel, Single(AsInt(level)),
                           r.raised, r.value)
    /\ UNCHANGED <<channelVars, dispatcherVars, threadVars, output_format, handlers,
                   written>>

NextLabels ==
    \/ \E level \in LabelledLevels, t \in Labels : SetStrRepr(level, t)
    \/ SetStrReprs(<<[key |-> "INFO", value |-> "INFORMATION"],
                     [key |-> "ERROR", value |-> "FAILURE"]>>)
    \/ ClearStrReprs
    \/ \E level \in LabelledLevels \cup {"DEBUG"} : Str(level)
    \/ CustomLevelLabelled(35, "TRACE")

SpecLabels == InitLabels /\ [][NextLabels]_vars

\* The override label of the level S in custom_str_map, or its lower-case name.
LabelOf(S, str_map) ==
    IF \E i \in 1..Len(str_map) : str_map[i].key = S
    THEN str_map[CHOOSE i \in 1..Len(str_map) : str_map[i].key = S].value
    ELSE name_lower[S]

\* C27: str(S) is S's override label if there is one and its lower-case name
\* otherwise; set_str_repr(S, t) makes str(S) = t and leaves every other label;
\* clear_str_reprs makes every label the lower-case name; neither changes a slot
\* or a numeric value.
C27_LabelRoundTrip ==
    [][/\ last'.op = "str" => last'.value = LabelOf(last'.ch, custom_str_map)
       /\ last'.op = "set_str_repr" =>
             \A S \in LogLevel :
                 LogLevel_str(S, custom_str_map') =
                     IF S = last'.ch THEN last'.param
                     ELSE LogLevel_str(S, custom_str_map)
       /\ last'.op = "clear_str_reprs" =>
             \A S \in LogLevel : LogLevel_str(S, custom_str_map') = name_lower[S]
       /\ last'.op \in {"set_str_repr", "set_str_reprs", "clear_str_reprs"} =>
             /\ custom_levels' = custom_levels
             /\ \A S \in LogLevel :
                   logging_level(S, custom_levels') = logging_level(S, custom_levels)
      ]_vars

\* CUSTOM0 is bound to 35 and was labelled TRACE, the labels were cleared, and str
\* gave custom0.
C27_Witness ==
    /\ last.op = "str"
    /\ last.ch = "CUSTOM0"
    /\ last.value = "custom0"
    /\ custom_levels[1] = 35
    /\ custom_str_map = <<>>

\* A label was set while two other levels had labels.
C27_WitnessSet ==
    /\ last.op = "set_str_repr"
    /\ last.ch = "CUSTOM0"
    /\ Len(custom_str_map) = 3
    /\ LogLevel_str("CUSTOM0", custom_str_map) = "TRACE"

(***************************************************************************)
(* Sinks: a console channel and two file channels in one process           *)
(***************************************************************************)

\* The do_log calls the channels receive in all.
MaxSinkInvocations == 3

SinkChannels == {"c1", "c2", "c4"}
Sinks == {"console", "app.log", "other.log"}

SinkOrders ==
    {chs \in [1..3 -> SinkChannels] : \A i, j \in 1..3 : i # j => chs[i] # chs[j]}

SinkLevels == {AsLevel("INFO"), AsLevel("WARNING")}

\* The loop of FlashLogger.log with what the logging module writes: st holds the slot
\* values, the backends, the calls received, the lines on sys.stderr and the sinks.
RECURSIVE dispatch_to_sinks(_, _, _, _)
dispatch_to_sinks(chs, log_level, message, st) ==
    IF chs = <<>> THEN st
    ELSE LET c == Head(chs)
             r == do_log(channel_class[c], log_level, message, TRUE,
                         loggable[c], st.custom_levels)
         IN  dispatch_to_sinks(
                 Tail(chs), log_level, message,
                 [custom_levels |-> r.custom_levels,
                  backend |-> [st.backend EXCEPT ![c] = @ \o r.handed],
                  invoked |-> [st.invoked EXCEPT ![c] = Append(@, <<log_level, message>>)],
                  stderr |-> IF r.raised THEN Append(st.stderr, c) ELSE st.stderr,
                  written |-> emit(c, r, handlers, st.written)])

\* The console channel permits everything, the file channel for app.log has the
\* threshold WARNING and the one for other.log has the default filter; the three were
\* constructed in some order and registered in it.
InitSinks ==
    /\ custom_levels = Prefilled(0)
    /\ loggable = [c \in SinkChannels |->
                      configure_levels(IF c = "c2" THEN Single(AsLevel("WARNING")) ELSE None,
                                       None, None, custom_levels).value]
    /\ backend = [c \in SinkChannels |-> <<>>]
    /\ invoked = [c \in SinkChannels |-> <<>>]
    /\ stderr = <<>>
    /\ last = Call("FlashLogger", NoChannel, None, FALSE, "None")
    /\ NoThreads
    /\ custom_str_map = <<>>
    /\ written = [s \in Sinks |-> <<>>]
    /\ \E chs \in SinkOrders :
          LET r == construct_all(chs, [c \in SinkChannels |-> NoFormat], <<>>,
                                 [shared |-> <<>>, root |-> <<>>])
              d == new_FlashLogger(chs)
          IN  /\ output_format = r.of
              /\ handlers = r.h
              /\ log_channels = d.log_channels
              /\ channel_id_counter = d.channel_id_counter
              /\ channel_ids = d.channel_ids
              /\ channel_selectors = d.channel_selectors

Invocations == Len(invoked["c1"]) + Len(invoked["c2"]) + Len(invoked["c4"])

\* channel.do_log(level, message), called on the channel itself.
SinkDoLog(c, level, message) ==
    /\ Invocations < MaxSinkInvocations
    /\ LET r == do_log(channel_class[c], level, message, FALSE, loggable[c],
                       custom_levels)
       IN  /\ custom_levels' = r.custom_levels
           /\ backend' = [backend EXCEPT ![c] = @ \o r.handed]
           /\ invoked' = [invoked EXCEPT ![c] = Append(@, <<level, message>>)]
           /\ written' = emit(c, r, handlers, written)
           /\ last' = Call("do_log", c, Single(level), r.raised, r.value)
    /\ UNCHANGED <<loggable, dispatcherVars, threadVars, output_format, handlers,
                   custom_str_map>>

\* logger.log(level, message): log_info and log_warning.
SinkLog(level, message) ==
    /\ Invocations + Len(log_channels) <= MaxSinkInvocations
    /\ LET st == dispatch_to_sinks(log_channels, level, message,
                                   [custom_levels |-> custom_levels, backend |-> backend,
                                    invoked |-> invoked, stderr |-> <<>>,
                                    written |-> written])
       IN  /\ custom_levels' = st.custom_levels
           /\ backend' = st.backend
           /\ invoked' = st.invoked
           /\ stderr' = st.stderr
           /\ written' = st.written
           /\ last' = Call("log", NoChannel, Single(level), FALSE, "None")
    /\ UNCHANGED <<loggable, log_channels, channel_id_counter, channel_ids,
                   channel_selectors, threadVars, output_format, handlers,
                   custom_str_map>>

NextSinks ==
    \/ \E c \in SinkChannels, level \in SinkLevels : SinkDoLog(c, level, "m")
    \/ \E level \in SinkLevels : SinkLog(level, "m")

SpecSinks == InitSinks /\ [][NextSinks]_vars

\* C28: a file channel's file gets one record exactly when that channel's do_log was
\* called with a level its filter permits, and nothing from a call of the console
\* channel or of the file channel for another path.
C28_IndependentFileSinks ==
    [][\A f \in {c \in SinkChannels : channel_class[c] = "FileLogChannel"} :
          LET called == Len(invoked'[f]) > Len(invoked[f])
              permitted == called /\ last'.param.ref.name \in loggable[f]
          IN  Len(written'[log_file_of[f]]) =
                  Len(written[log_file_of[f]]) + (IF permitted THEN 1 ELSE 0)
      ]_vars

(***************************************************************************)
(* Resolution: custom_level, is_loggable and do_log with any reference     *)
(***************************************************************************)

\* The do_log calls the two channels receive in all.
MaxDoLogs == 1

ResolveChannels == {"c1", "c2"}

\* A member, names (one unknown), and numbers: standard, custom and negative.
ResolveRefs ==
    {AsLevel("WARNING"), AsStr("Warning"), AsStr("bogus"), AsInt(40), AsInt(35), AsInt(-5)}
ResolveNumbers == {-5, 20, 35, 999}
ResolvePrefills == {0, NumCustomSlots - 1, NumCustomSlots}

\* A console channel with the threshold WARNING and a file channel with the default
\* filter, constructed in that order.
InitResolve ==
    /\ \E k \in ResolvePrefills : custom_levels = Prefilled(k)
    /\ loggable = [c \in ResolveChannels |->
                      configure_levels(IF c = "c1" THEN Single(AsLevel("WARNING")) ELSE None,
                                       None, None, custom_levels).value]
    /\ backend = [c \in ResolveChannels |-> <<>>]
    /\ invoked = [c \in ResolveChannels |-> <<>>]
    /\ NoDispatcher
    /\ last = Call("import", NoChannel, None, FALSE, "None")
    /\ NoThreads
    /\ custom_str_map = <<>>
    /\ written = [s \in {"console", "app.log"} |-> <<>>]
    /\ LET r == construct_all(<<"c1", "c2">>, [c \in ResolveChannels |-> NoFormat], <<>>,
                              [shared |-> <<>>, root |-> <<>>])
       IN  /\ output_format = r.of
           /\ handlers = r.h

\* channel.do_log(level, message) with any reference as level.
DoLog(c, level, message) ==
    /\ Len(invoked["c1"]) + Len(invoked["c2"]) < MaxDoLogs
    /\ LET r == do_log(channel_class[c], level, message, FALSE, loggable[c],
                       custom_levels)
       IN  /\ custom_levels' = r.custom_levels
           /\ backend' = [backend EXCEPT ![c] = @ \o r.handed]
           /\ invoked' = [invoked EXCEPT ![c] = Append(@, <<level, message>>)]
           /\ written' = emit(c, r, handlers, written)
           /\ last' = Call("do_log", c, Single(level), r.raised, r.value)
    /\ UNCHANGED <<loggable, dispatcherVars, threadVars, output_format, handlers,
                   custom_str_map>>

NextResolve ==
    \/ \E level \in ResolveNumbers : CustomLevel(level)
    \/ \E c \in ResolveChannels, ref \in ResolveRefs : IsLoggable(c, ref)
    \/ \E c \in ResolveChannels, ref \in ResolveRefs : DoLog(c, ref, "m")

SpecResolve == InitResolve /\ [][NextResolve]_vars

\* The reference is a non-negative number that is no standard value and is in no slot.
NeedsSlot(ref, cl) ==
    /\ ref.kind = "int"
    /\ ref.num >= 0
    /\ ref.num \notin DOMAIN standard_mapping
    /\ \A i \in 1..Len(cl) : cl[i] # ref.num

\* C30: custom_level, is_loggable and do_log change the slots only by binding one free
\* slot to the number given, and only for a non-negative number that is no standard
\* value and in no slot; names, members, standard and negative numbers bind nothing;
\* no channel's permitted set changes.
C30_ResolutionBindsAtMostOneSlot ==
    [][last'.op \in {"custom_level", "is_loggable", "do_log"} =>
          /\ loggable' = loggable
          /\ IF /\ NeedsSlot(last'.param.ref, custom_levels)
                /\ \E i \in 1..Len(custom_levels) : custom_levels[i] = logging_NOTSET
             THEN \E i \in 1..Len(custom_levels) :
                     /\ custom_levels[i] = logging_NOTSET
                     /\ custom_levels' = [custom_levels EXCEPT ![i] = last'.param.ref.num]
             ELSE custom_levels' = custom_levels
      ]_vars

\* is_loggable was asked about a number never seen before, and the number is in the
\* first slot now.
C30_Witness ==
    /\ last.op = "is_loggable"
    /\ last.param.ref = AsInt(35)
    /\ ~last.raised
    /\ custom_levels[1] = 35

\* do_log was called with a negative number and no slot is bound.
C30_WitnessNegative ==
    /\ last.op = "do_log"
    /\ last.param.ref = AsInt(-5)
    /\ \A i \in 1..Len(custom_levels) : custom_levels[i] = logging_NOTSET

====
